---- MODULE Spec2Model ----
(***************************************************************************)
(* Model of the custom composite index engine                              *)
(* (src/Program/data/custom_index.py): compute_custom_index and its        *)
(* helpers, as a state machine whose program counter walks the body of     *)
(* compute_custom_index one statement group at a time.                     *)
(*                                                                         *)
(* Time is counted in whole days.  A float64 is a pair <<n, d>>:           *)
(*   d >= 1  the finite number n/d in lowest terms (<<0, 1>> is +0.0)      *)
(*   <<0, -1>>  -0.0      <<0, 0>>  NaN                                    *)
(*   <<1, 0>>   +inf      <<-1, 0>> -inf                                   *)
(* Finite arithmetic is exact (no rounding, no overflow to infinity).      *)
(*                                                                         *)
(* Second part: the chart library (src/Program/service/chart_library.py    *)
(* over src/Program/service/chart_library_storage.py), a state machine     *)
(* with one action per library operation, each running the whole           *)
(* operation from load_library to _persist_library.  There the write of    *)
(* the storage is one step; JsonFileChartLibraryStorage.write is also      *)
(* modelled on its own, one action per statement group of its retry loop.  *)
(***************************************************************************)
EXTENDS Integers, Sequences, FiniteSets, TLC

VARIABLES
    data,                   \* the caller's table: [index, cols]
    formula,                \* the formula text, given by what ast.parse makes of it
    aliases,                \* the caller's alias -> "TICKER:FIELD" mapping
    expected_periodicity,   \* "DAILY" .. "YEARLY" or "None"
    cross_align,            \* "exact" or "asof"
    cross_align_tolerance,  \* [kind |-> "auto" | "none" | "days", days |-> n]
    pc,                     \* position in compute_custom_index
    df,                     \* the local name `data` (rebound by sort_index)
    expr_ast,               \* tree.body
    referenced,             \* the set `referenced`
    names,                  \* the order in which `referenced` is iterated
    target_idx,
    tol,
    aligned,
    result_series,
    warnings,
    out,                    \* the returned frame and its attrs
    error,                  \* the exception that left the call, if any
    storage,                \* the storage backend: its kind and what it holds
    call,                   \* the last library operation called, with its arguments
    result,                 \* what that call raised, or the library it returned
    now,                    \* the clock read by _now_iso, in seconds
    ops,                    \* the number of library operations called so far
    writer                  \* JsonFileChartLibraryStorage.write: its position, its
                            \* locals and the temporary files of the directory

vars == <<data, formula, aliases, expected_periodicity, cross_align,
          cross_align_tolerance, pc, df, expr_ast, referenced, names,
          target_idx, tol, aligned, result_series, warnings, out, error,
          storage, call, result, now, ops, writer>>

inputs == <<data, formula, aliases, expected_periodicity, cross_align,
            cross_align_tolerance>>

\* the state of the chart library, which compute_custom_index never touches
library_vars == <<storage, call, result, now, ops, writer>>

-----------------------------------------------------------------------------
(* float64 values                                                          *)

NaN == <<0, 0>>
PInf == <<1, 0>>
NInf == << -1, 0>>
Zero == <<0, 1>>
NegZero == <<0, -1>>
One == <<1, 1>>

IsNaN(v) == v = NaN
IsInf(v) == v[2] = 0 /\ v[1] # 0
IsFinite(v) == v[2] # 0
IsZero(v) == v[2] # 0 /\ v[1] = 0
\* TRUE when the sign bit is set (NaN is never asked)
Negative(v) == IF v[1] = 0 THEN v[2] < 0 ELSE v[1] < 0

Abs(n) == IF n < 0 THEN -n ELSE n

RECURSIVE Gcd(_, _)
Gcd(a, b) == IF b = 0 THEN a ELSE Gcd(b, a % b)

\* the finite number n/d (d > 0, n # 0) in lowest terms
Ratio(n, d) == LET g == Gcd(Abs(n), d) IN <<n \div g, d \div g>>

Num(v) == v[1]
Den(v) == IF v[2] < 0 THEN 1 ELSE v[2]

SignedZero(neg) == IF neg THEN NegZero ELSE Zero
SignedInf(neg) == IF neg THEN NInf ELSE PInf

Int2F(n) == <<n, 1>>

FNeg(a) ==
    IF IsNaN(a) THEN NaN
    ELSE IF IsInf(a) THEN SignedInf(~Negative(a))
    ELSE IF IsZero(a) THEN SignedZero(~Negative(a))
    ELSE << -a[1], a[2]>>

FAdd(a, b) ==
    IF IsNaN(a) \/ IsNaN(b) THEN NaN
    ELSE IF IsInf(a) /\ IsInf(b) THEN (IF a = b THEN a ELSE NaN)
    ELSE IF IsInf(a) THEN a
    ELSE IF IsInf(b) THEN b
    ELSE IF IsZero(a) /\ IsZero(b) THEN SignedZero(Negative(a) /\ Negative(b))
    ELSE LET n == Num(a) * Den(b) + Num(b) * Den(a)
         IN  IF n = 0 THEN Zero ELSE Ratio(n, Den(a) * Den(b))

FSub(a, b) == FAdd(a, FNeg(b))

FMul(a, b) ==
    IF IsNaN(a) \/ IsNaN(b) THEN NaN
    ELSE IF (IsInf(a) /\ IsZero(b)) \/ (IsZero(a) /\ IsInf(b)) THEN NaN
    ELSE IF IsInf(a) \/ IsInf(b) THEN SignedInf(Negative(a) # Negative(b))
    ELSE IF IsZero(a) \/ IsZero(b) THEN SignedZero(Negative(a) # Negative(b))
    ELSE Ratio(Num(a) * Num(b), Den(a) * Den(b))

\* numpy true division: x/0 is +-inf and 0/0 is nan, nothing is raised
FDiv(a, b) ==
    IF IsNaN(a) \/ IsNaN(b) THEN NaN
    ELSE IF IsInf(a) /\ IsInf(b) THEN NaN
    ELSE IF IsZero(a) /\ IsZero(b) THEN NaN
    ELSE IF IsInf(a) \/ IsZero(b) THEN SignedInf(Negative(a) # Negative(b))
    ELSE IF IsInf(b) \/ IsZero(a) THEN SignedZero(Negative(a) # Negative(b))
    ELSE IF Num(b) < 0 THEN Ratio(-(Num(a) * Den(b)), Den(a) * (-Num(b)))
    ELSE Ratio(Num(a) * Den(b), Den(a) * Num(b))

IsInteger(v) == IsFinite(v) /\ Den(v) = 1
IsOddInteger(v) == IsInteger(v) /\ Num(v) % 2 = 1

RECURSIVE IntPow(_, _)
IntPow(b, k) == IF k = 0 THEN 1 ELSE b * IntPow(b, k - 1)

\* |a| compared with 1, for a that is not NaN: -1, 0 or 1
AbsVsOne(a) ==
    IF IsInf(a) THEN 1
    ELSE IF Abs(Num(a)) < Den(a) THEN -1
    ELSE IF Abs(Num(a)) = Den(a) THEN 0 ELSE 1

\* numpy power on float64 (C pow): pow(x, +-0) = 1 and pow(1, y) = 1 even for
\* a NaN operand.  A positive base other than 1 with a finite non-integer
\* exponent has no exact value here; the inputs never produce one.
FPow(a, b) ==
    IF (~IsNaN(b) /\ IsZero(b)) THEN One
    ELSE IF a = One THEN One
    ELSE IF IsNaN(a) \/ IsNaN(b) THEN NaN
    ELSE IF IsInf(b) THEN
        IF AbsVsOne(a) = 0 THEN One
        ELSE IF (AbsVsOne(a) < 0) = Negative(b) THEN PInf ELSE Zero
    ELSE IF IsInf(a) THEN
        IF Negative(b) THEN SignedZero(Negative(a) /\ IsOddInteger(b))
        ELSE SignedInf(Negative(a) /\ IsOddInteger(b))
    ELSE IF IsZero(a) THEN
        IF Negative(b) THEN SignedInf(Negative(a) /\ IsOddInteger(b))
        ELSE SignedZero(Negative(a) /\ IsOddInteger(b))
    ELSE IF IsInteger(b) THEN
        LET k == Abs(Num(b))
            p == IntPow(Num(a), k)
            q == IntPow(Den(a), k)
        IN  IF Num(b) > 0 THEN Ratio(p, q)
            ELSE IF p < 0 THEN Ratio(-q, -p) ELSE Ratio(q, p)
    ELSE IF Negative(a) THEN NaN
    ELSE CHOOSE v \in {} : TRUE


\* lo <= v <= hi on floats (any comparison with NaN is false)
FLe(a, b) ==
    /\ ~IsNaN(a) /\ ~IsNaN(b)
    /\ IF IsInf(a) THEN Negative(a) \/ a = b
       ELSE IF IsInf(b) THEN ~Negative(b)
       ELSE Num(a) * Den(b) <= Num(b) * Den(a)

-----------------------------------------------------------------------------
(* Formulas: the tree ast.parse(formula, mode="eval") returns.  Every node *)
(* is [kind, tag, val, kids]: kind is the node class; tag is the id of a   *)
(* Name, the class of the operator of a BinOp/UnaryOp, and the Python type *)
(* of a Constant's value; val is float(value) of a Constant.               *)

Name(id) == [kind |-> "Name", tag |-> id, val |-> NaN, kids |-> <<>>]
Const(type, v) == [kind |-> "Constant", tag |-> type, val |-> v, kids |-> <<>>]
BinOp(op, l, r) == [kind |-> "BinOp", tag |-> op, val |-> NaN, kids |-> <<l, r>>]
UnaryOp(op, x) == [kind |-> "UnaryOp", tag |-> op, val |-> NaN, kids |-> <<x>>]
Node(kind, kids) == [kind |-> kind, tag |-> "", val |-> NaN, kids |-> kids]
IntLit(n) == Const("int", Int2F(n))

\* formula text that ast.parse rejects with SyntaxError
SyntaxErrorText == [syntax_ok |-> FALSE, body |-> Name("")]
Parsed(body) == [syntax_ok |-> TRUE, body |-> body]

_ALLOWED_BINOPS == {"Add", "Sub", "Mult", "Div", "Pow"}
_ALLOWED_UNARYOPS == {"UAdd", "USub"}
\* isinstance(node.value, (int, float)): bool is a subclass of int
NumericConstantTypes == {"int", "float", "bool"}

VisitOk(ns) == [ok |-> TRUE, msg |-> "", detail |-> <<>>, names |-> ns]
VisitErr(m, d) == [ok |-> FALSE, msg |-> m, detail |-> d, names |-> {}]

\* _ALLOWED_NODES as declared at module level, which visit() does not use
AllowedNodesWithSubscript ==
    {"Expression", "BinOp", "UnaryOp", "Name", "Constant", "Load", "Subscript"}

\* the isinstance tuple of _Visitor.visit
VisitedNodeTypes == {"Expression", "BinOp", "UnaryOp", "Name", "Constant"}

\* _Visitor.visit and the visit_* methods: depth first, left to right, the
\* first offending node raises.  A class without a visit_* method gets
\* NodeVisitor.generic_visit, which visits the children in order.
RECURSIVE Visit(_), VisitAll(_)
Visit(node) ==
    IF node.kind \notin VisitedNodeTypes
    THEN VisitErr("Forbidden expression element", <<node.kind>>)
    ELSE IF node.kind = "BinOp" THEN
        IF node.tag \notin _ALLOWED_BINOPS
        THEN VisitErr("Operator not allowed", <<node.tag>>)
        ELSE VisitAll(node.kids)
    ELSE IF node.kind = "UnaryOp" THEN
        IF node.tag \notin _ALLOWED_UNARYOPS
        THEN VisitErr("Unary operator not allowed", <<node.tag>>)
        ELSE Visit(node.kids[1])
    ELSE IF node.kind = "Name" THEN VisitOk({node.tag})
    ELSE IF node.kind = "Constant" THEN
        IF node.tag \notin NumericConstantTypes
        THEN VisitErr("Only numeric constants are allowed in the formula.", <<>>)
        ELSE VisitOk({})
    ELSE VisitAll(node.kids)

VisitAll(kids) ==
    IF kids = <<>> THEN VisitOk({})
    ELSE LET h == Visit(Head(kids))
         IN  IF ~h.ok THEN h
             ELSE LET t == VisitAll(Tail(kids))
                  IN  IF ~t.ok THEN t ELSE VisitOk(h.names \cup t.names)

\* _parse_formula_safe: [ok, msg, detail, names]; tree.body is formula.body
_parse_formula_safe(f) ==
    IF ~f.syntax_ok THEN VisitErr("Invalid formula syntax", <<>>)
    ELSE Visit(f.body)

-----------------------------------------------------------------------------
(* Frames and series.  A frame is [index, cols]: index a sequence of days, *)
(* cols a function from column name to a sequence of floats of the same    *)
(* length.  A series is [index, values].                                   *)

Range(s) == {s[i] : i \in DOMAIN s}
Min(S) == CHOOSE m \in S : \A x \in S : m <= x

RECURSIVE SetToSortedSeq(_)
SetToSortedSeq(S) ==
    IF S = {} THEN <<>> ELSE <<Min(S)>> \o SetToSortedSeq(S \ {Min(S)})

Column(frame, name) == [index |-> frame.index, values |-> frame.cols[name]]

\* the rows of s at the positions K (ascending)
Take(s, K) ==
    LET P == SetToSortedSeq(K)
    IN  [index |-> [i \in 1..Len(P) |-> s.index[P[i]]],
         values |-> [i \in 1..Len(P) |-> s.values[P[i]]]]

dropna(s) == Take(s, {i \in DOMAIN s.values : ~IsNaN(s.values[i])})

is_monotonic_increasing(idx) ==
    \A i \in DOMAIN idx : \A j \in DOMAIN idx : i < j => idx[i] <= idx[j]

\* DataFrame.sort_index on an index of distinct days: a new frame
sort_index(frame) ==
    LET order == SetToSortedSeq(Range(frame.index))
        pos(t) == CHOOSE i \in DOMAIN frame.index : frame.index[i] = t
    IN  [index |-> order,
         cols |-> [c \in DOMAIN frame.cols |->
                      [i \in DOMAIN order |-> frame.cols[c][pos(order[i])]]]]

\* Series.reindex: the value at an exactly matching label, else NaN
reindex(s, target) ==
    [index |-> target,
     values |-> [i \in DOMAIN target |->
        IF \E j \in DOMAIN s.index : s.index[j] = target[i]
        THEN s.values[CHOOSE j \in DOMAIN s.index : s.index[j] = target[i]]
        ELSE NaN]]

RECURSIVE UnionAll(_)
UnionAll(indices) ==
    IF indices = <<>> THEN {} ELSE Range(Head(indices)) \cup UnionAll(Tail(indices))

_union_index(indices) == SetToSortedSeq(UnionAll(indices))

\* a resolved tolerance: None, or a Timedelta of whole days
NoTolerance == [kind |-> "none", days |-> 0]
Days(n) == [kind |-> "days", days |-> n]

\* merge_asof with direction="nearest": the closest row on either side
_asof_align_nearest(s, target, tolerance) ==
    LET r == dropna(s)
        dist(T, j) == Abs(T - r.index[j])
        near(T) == CHOOSE j \in DOMAIN r.index :
                       \A k \in DOMAIN r.index :
                           \/ dist(T, j) < dist(T, k)
                           \/ dist(T, j) = dist(T, k) /\ r.index[j] <= r.index[k]
    IN  IF r.index = <<>>
        THEN [index |-> target, values |-> [i \in DOMAIN target |-> NaN]]
        ELSE [index |-> target,
              values |-> [i \in DOMAIN target |->
                 IF /\ tolerance.kind = "days"
                    /\ dist(target[i], near(target[i])) > tolerance.days
                 THEN NaN
                 ELSE r.values[near(target[i])]]]

\* pd.merge_asof(left, right, direction="backward", tolerance=tolerance) on
\* the non-missing rows of s: per target day T the last row with day <= T,
\* kept only when T - day <= tolerance
_asof_align_series(s, target, tolerance) ==
    LET r == dropna(s)
        before(T) == {j \in DOMAIN r.index : r.index[j] <= T}
        last(T) == CHOOSE j \in before(T) :
                       \A k \in before(T) : r.index[k] <= r.index[j]
    IN  IF r.index = <<>>
        THEN [index |-> target, values |-> [i \in DOMAIN target |-> NaN]]
        ELSE [index |-> target,
              values |-> [i \in DOMAIN target |->
                 IF before(target[i]) = {} THEN NaN
                 ELSE IF /\ tolerance.kind = "days"
                         /\ target[i] - r.index[last(target[i])] > tolerance.days
                      THEN NaN
                      ELSE r.values[last(target[i])]]]

\* merge_asof raises MergeError("tolerance must be positive") below zero
AsofRaises(s, tolerance) ==
    /\ dropna(s).index # <<>>
    /\ tolerance.kind = "days" /\ tolerance.days < 0

AutoToleranceDays(expected) ==
    CASE expected = "DAILY" -> 3
      [] expected = "WEEKLY" -> 10
      [] expected = "MONTHLY" -> 35
      [] expected = "QUARTERLY" -> 100
      [] expected = "YEARLY" -> 400
      [] OTHER -> 35

\* the mapping consulted whenever an expected periodicity is given
_resolve_tolerance_expected_first(t, expected) ==
    IF t.kind = "none" THEN NoTolerance
    ELSE IF t.kind = "days" /\ expected = "None" THEN Days(t.days)
    ELSE Days(AutoToleranceDays(expected))

_resolve_tolerance(t, expected) ==
    IF t.kind = "none" THEN NoTolerance
    ELSE IF t.kind = "days" THEN Days(t.days)
    ELSE Days(AutoToleranceDays(expected))

\* line 173: str(tol) for a Timedelta of whole days, None (here <<>>) for None
TimedeltaStr(t) == IF t.kind = "days" THEN <<t.days, "days 00:00:00">> ELSE <<>>

-----------------------------------------------------------------------------
(* Series arithmetic.  _evaluate_expr broadcasts every literal to a series *)
(* before it combines it, so the helpers only ever meet two series.        *)

At(s, t) ==
    IF \E j \in DOMAIN s.index : s.index[j] = t
    THEN s.values[CHOOSE j \in DOMAIN s.index : s.index[j] = t]
    ELSE NaN

\* the outer join of two indexes that a flex/binary operation computes
JoinIndex(a, b) ==
    IF a.index = b.index THEN a.index
    ELSE SetToSortedSeq(Range(a.index) \cup Range(b.index))

\* the float64 operation of an operator
Apply(op, x, y) ==
    CASE op = "Add" -> FAdd(x, y)
      [] op = "Sub" -> FSub(x, y)
      [] op = "Mult" -> FMul(x, y)
      [] op = "Div" -> FDiv(x, y)
      [] op = "Pow" -> FPow(x, y)

\* a.op(b) with no fill_value
Elementwise(op, a, b) ==
    LET idx == JoinIndex(a, b)
    IN  [index |-> idx,
         values |-> [i \in DOMAIN idx |-> Apply(op, At(a, idx[i]), At(b, idx[i]))]]

\* a.op(b, fill_value=0.0): pandas fills a side only where exactly one of
\* the two sides is missing
ElementwiseFill(op, a, b) ==
    LET idx == JoinIndex(a, b)
        fill(x, other) == IF IsNaN(x) /\ ~IsNaN(other) THEN Zero ELSE x
    IN  [index |-> idx,
         values |-> [i \in DOMAIN idx |->
            LET x == At(a, idx[i])
                y == At(b, idx[i])
            IN  Apply(op, fill(x, y), fill(y, x))]]

\* replace([np.inf], np.nan): -inf is left in place
ReplacePosInfOnly(s) ==
    [index |-> s.index,
     values |-> [i \in DOMAIN s.values |->
                    IF s.values[i] = PInf THEN NaN ELSE s.values[i]]]

\* Series.replace([np.inf, -np.inf], np.nan)
ReplaceInf(s) ==
    [index |-> s.index,
     values |-> [i \in DOMAIN s.values |->
                    IF IsInf(s.values[i]) THEN NaN ELSE s.values[i]]]

\* the branch of line 300, `a.add(float(b))`, which fills nothing
_series_add_scalar_branch(a, b) == Elementwise("Add", a, b)
_series_add(a, b) == ElementwiseFill("Add", a, b)
_series_sub(a, b) == ElementwiseFill("Sub", a, b)
_series_mul(a, b) == Elementwise("Mult", a, b)
_series_div(a, b) == ReplaceInf(Elementwise("Div", a, b))
_series_pow(a, b) == Elementwise("Pow", a, b)

\* the negation as `0 - a` with fill_value=0 would give it
SeriesNegZeroFilled(a) ==
    [index |-> a.index,
     values |-> [i \in DOMAIN a.values |->
                    IF IsNaN(a.values[i]) THEN Zero ELSE FNeg(a.values[i])]]

SeriesNeg(a) ==
    [index |-> a.index, values |-> [i \in DOMAIN a.values |-> FNeg(a.values[i])]]

\* pd.Series(c, index=idx): the literal on the index of the first series of env
Broadcast(c, idx) == [index |-> idx, values |-> [i \in DOMAIN idx |-> c]]

\* env is the dict `aligned`; order is its insertion order
RECURSIVE _evaluate_expr(_, _, _)
_evaluate_expr(node, env, order) ==
    IF node.kind = "BinOp" THEN
        LET left == _evaluate_expr(node.kids[1], env, order)
            right == _evaluate_expr(node.kids[2], env, order)
        IN  CASE node.tag = "Add" -> _series_add(left, right)
              [] node.tag = "Sub" -> _series_sub(left, right)
              [] node.tag = "Mult" -> _series_mul(left, right)
              [] node.tag = "Div" -> _series_div(left, right)
              [] node.tag = "Pow" -> _series_pow(left, right)
    ELSE IF node.kind = "UnaryOp" THEN
        LET v == _evaluate_expr(node.kids[1], env, order)
        IN  IF node.tag = "UAdd" THEN v ELSE SeriesNeg(v)
    ELSE IF node.kind = "Name" THEN env[node.tag]
    ELSE Broadcast(node.val, env[order[1]].index)

-----------------------------------------------------------------------------
(* Frequency guard                                                         *)

RECURSIVE SortInts(_)
SortInts(q) ==
    IF q = <<>> THEN <<>>
    ELSE LET m == Min(Range(q))
             i == CHOOSE k \in DOMAIN q : q[k] = m
         IN  <<m>> \o SortInts(SubSeq(q, 1, i - 1) \o SubSeq(q, i + 1, Len(q)))

\* the median gap, in days, between consecutive labels; NaN below 2 labels
_median_days(idx) ==
    IF Len(idx) < 2 THEN NaN
    ELSE LET diffs == SortInts([i \in 1..(Len(idx) - 1) |-> idx[i + 1] - idx[i]])
             n == Len(diffs)
         IN  IF n % 2 = 1 THEN Int2F(diffs[(n + 1) \div 2])
             ELSE FDiv(FAdd(Int2F(diffs[n \div 2]), Int2F(diffs[n \div 2 + 1])),
                       Int2F(2))

Labels == <<"DAILY", "WEEKLY", "MONTHLY", "QUARTERLY", "YEARLY">>

\* bands[label] = (lo, hi), in days
bands(label) ==
    CASE label = "DAILY" -> <<(<<1, 2>>), (<<7, 2>>)>>
      [] label = "WEEKLY" -> <<Int2F(4), Int2F(10)>>
      [] label = "MONTHLY" -> <<Int2F(25), (<<71, 2>>)>>
      [] label = "QUARTERLY" -> <<Int2F(80), Int2F(100)>>
      [] label = "YEARLY" -> <<Int2F(320), Int2F(400)>>

\* the bands without their end points: lo < days < hi
InBandExclusive(days, label) ==
    /\ ~IsNaN(days)
    /\ FLe(bands(label)[1], days) /\ days # bands(label)[1]
    /\ FLe(days, bands(label)[2]) /\ days # bands(label)[2]

InBand(days, label) == FLe(bands(label)[1], days) /\ FLe(days, bands(label)[2])

_matches_periodicity(idx, expected) ==
    LET days == _median_days(idx)
    IN  IF IsNaN(days) THEN TRUE ELSE InBand(days, expected)

\* the first band, in the order of the dict, that holds the median; else None
_infer_periodicity_label(idx) ==
    LET days == _median_days(idx)
        hits == {k \in DOMAIN Labels : InBand(days, Labels[k])}
    IN  IF IsNaN(days) \/ hits = {} THEN "None" ELSE Labels[Min(hits)]

\* data[name].index, without the dropna()
WholeIndex(frame, name) == frame.index
\* data[name].dropna().index
NonMissingIndex(frame, name) == dropna(Column(frame, name)).index

\* the guard with `len(unique) > 2`
_enforce_uniform_frequency_off_by_one(frame, order) ==
    LET labels == {_infer_periodicity_label(NonMissingIndex(frame, order[k])) :
                      k \in DOMAIN order} \ {"None"}
    IN  IF Cardinality(labels) > 2
        THEN [ok |-> FALSE,
              msg |-> "Mixed native frequencies detected among components",
              detail |-> <<>>]
        ELSE [ok |-> TRUE, msg |-> "", detail |-> <<>>]

\* [ok, msg, detail]: detail lists, per name and in the order of `names`,
\* the median and the label
_enforce_uniform_frequency(frame, order) ==
    LET labels == [k \in DOMAIN order |->
                      _infer_periodicity_label(NonMissingIndex(frame, order[k]))]
        medians == [k \in DOMAIN order |->
                      _median_days(NonMissingIndex(frame, order[k]))]
        unique == {labels[k] : k \in DOMAIN order} \ {"None"}
    IN  IF Cardinality(unique) > 1
        THEN [ok |-> FALSE,
              msg |-> "Mixed native frequencies detected among components",
              detail |-> [k \in DOMAIN order |-> <<order[k], medians[k], labels[k]>>]]
        ELSE [ok |-> TRUE, msg |-> "", detail |-> <<>>]

\* the check applied to names[0] alone
_validate_first_series_only(frame, order, expected) ==
    IF /\ order # <<>>
       /\ Len(NonMissingIndex(frame, order[1])) >= 2
       /\ ~_matches_periodicity(NonMissingIndex(frame, order[1]), expected)
    THEN [ok |-> FALSE,
          msg |-> "does not match expected periodicity",
          detail |-> <<order[1], _median_days(NonMissingIndex(frame, order[1])),
                       expected>>]
    ELSE [ok |-> TRUE, msg |-> "", detail |-> <<>>]

\* the first name, in the order of `names`, with at least 2 points and a
\* median outside the expected band raises
_validate_all_series_frequency(frame, order, expected) ==
    LET bad == {k \in DOMAIN order :
                   /\ Len(NonMissingIndex(frame, order[k])) >= 2
                   /\ ~_matches_periodicity(NonMissingIndex(frame, order[k]), expected)}
    IN  IF bad = {} THEN [ok |-> TRUE, msg |-> "", detail |-> <<>>]
        ELSE [ok |-> FALSE,
              msg |-> "does not match expected periodicity",
              detail |-> <<order[Min(bad)],
                           _median_days(NonMissingIndex(frame, order[Min(bad)])),
                           expected>>]

\* summary["components"] is a dict keyed by name: equal whatever the order
\* in which its keys were inserted
_summarize_frequency(frame, order, expected) ==
    [expected |-> expected,
     components |-> [n \in Range(order) |->
        [non_na_points |-> Len(NonMissingIndex(frame, n)),
         median_step_days |-> _median_days(NonMissingIndex(frame, n))]]]

-----------------------------------------------------------------------------
(* compute_custom_index                                                    *)

\* every alias the inputs use, in the order sorted() gives them
AliasUniverse == <<"A", "B", "C", "Y", "Z">>

\* sorted(S) for a set of aliases
Sorted(S) == SelectSeq(AliasUniverse, LAMBDA a : a \in S)

\* the orders in which iterating the set S can yield its elements (the
\* order of a set of str depends on the interpreter's hash seed; one set
\* object is iterated in the same order every time)
IterationOrders(S) ==
    {q \in [1..Cardinality(S) -> S] : \A i, j \in DOMAIN q : q[i] = q[j] => i = j}

EmptySeries == [index |-> <<>>, values |-> <<>>]
EmptyFrame == [index |-> <<>>, cols |-> <<>>]
NoError == [type |-> "", msg |-> "", detail |-> <<>>]
Unset == [kind |-> "unset", days |-> 0]
NoOutput == [returned |-> FALSE, series |-> EmptySeries, meta |-> <<>>]

Raise(type, msg, detail) ==
    /\ error' = [type |-> type, msg |-> msg, detail |-> detail]
    /\ pc' = "raised"

\* dict.copy(): a new dict with the same items
dict_copy(d) == [id |-> "copy", items |-> d.items]

\* lines 115-118 with data.sort_index(inplace=True)
SortIndexInPlace ==
    /\ pc = "start"
    /\ data' = IF is_monotonic_increasing(data.index) THEN data ELSE sort_index(data)
    /\ df' = data'
    /\ pc' = "parse"
    /\ UNCHANGED <<library_vars, formula, aliases, expected_periodicity, cross_align,
                   cross_align_tolerance, expr_ast, referenced, names, target_idx,
                   tol, aligned, result_series, warnings, out, error>>

\* lines 115-118: the index check and the defensive sort
SortIndex ==
    /\ pc = "start"
    /\ df' = IF is_monotonic_increasing(data.index) THEN data ELSE sort_index(data)
    /\ pc' = "parse"
    /\ UNCHANGED <<library_vars, inputs, expr_ast, referenced, names, target_idx, tol, aligned,
                   result_series, warnings, out, error>>

\* line 121
ParseFormula ==
    /\ pc = "parse"
    /\ LET r == _parse_formula_safe(formula)
       IN  IF r.ok
           THEN /\ expr_ast' = formula.body
                /\ referenced' = r.names
                /\ names' \in IterationOrders(r.names)
                /\ pc' = "check_refs"
                /\ UNCHANGED error
           ELSE /\ Raise("ValueError", r.msg, r.detail)
                /\ UNCHANGED <<expr_ast, referenced, names>>
    /\ UNCHANGED <<library_vars, inputs, df, target_idx, tol, aligned, result_series, warnings, out>>

\* line 124, in the order of iteration
missing_aliases(order, frame) ==
    SelectSeq(order, LAMBDA n : n \notin DOMAIN frame.cols)

\* the aliases the message of line 127 names: sorted(missing_aliases)
FirstMissingOnly(missing) == SubSeq(missing, 1, 1)
MissingNamed(missing) == Sorted(Range(missing))

\* lines 122-128 without the test of line 122
CheckReferencedNoEmptyTest ==
    /\ pc = "check_refs"
    /\ IF missing_aliases(names, df) # <<>>
       THEN Raise("ValueError",
                  "Formula references aliases not found in data columns",
                  MissingNamed(missing_aliases(names, df)))
       ELSE pc' = "uniform" /\ UNCHANGED error
    /\ UNCHANGED <<library_vars, inputs, df, expr_ast, referenced, names, target_idx, tol, aligned,
                   result_series, warnings, out>>

\* lines 122-128
CheckReferenced ==
    /\ pc = "check_refs"
    /\ IF referenced = {}
       THEN Raise("ValueError", "Formula must reference at least one alias", <<>>)
       ELSE IF missing_aliases(names, df) # <<>>
       THEN Raise("ValueError",
                  "Formula references aliases not found in data columns",
                  MissingNamed(missing_aliases(names, df)))
       ELSE pc' = "uniform" /\ UNCHANGED error
    /\ UNCHANGED <<library_vars, inputs, df, expr_ast, referenced, names, target_idx, tol, aligned,
                   result_series, warnings, out>>

\* line 131 with the check of lines 134-135 made before it
ExpectedBeforeUniform ==
    /\ pc = "uniform"
    /\ LET e == IF expected_periodicity = "None"
                THEN [ok |-> TRUE, msg |-> "", detail |-> <<>>]
                ELSE _validate_all_series_frequency(df, names, expected_periodicity)
           r == _enforce_uniform_frequency(df, names)
       IN  IF ~e.ok THEN Raise("MixedFrequencyError", e.msg, e.detail)
           ELSE IF r.ok THEN pc' = "expected" /\ UNCHANGED error
           ELSE Raise("MixedFrequencyError", r.msg, r.detail)
    /\ UNCHANGED <<library_vars, inputs, df, expr_ast, referenced, names, target_idx, tol, aligned,
                   result_series, warnings, out>>

\* line 131
EnforceUniformFrequency ==
    /\ pc = "uniform"
    /\ LET r == _enforce_uniform_frequency(df, names)
       IN  IF r.ok THEN pc' = "expected" /\ UNCHANGED error
           ELSE Raise("MixedFrequencyError", r.msg, r.detail)
    /\ UNCHANGED <<library_vars, inputs, df, expr_ast, referenced, names, target_idx, tol, aligned,
                   result_series, warnings, out>>

\* lines 134-135 left out
ValidateExpectedSkipped ==
    /\ pc = "expected"
    /\ pc' = "target"
    /\ UNCHANGED <<library_vars, inputs, df, expr_ast, referenced, names, target_idx, tol, aligned,
                   result_series, warnings, out, error>>

\* lines 134-135
ValidateExpected ==
    /\ pc = "expected"
    /\ LET r == IF expected_periodicity = "None"
                THEN [ok |-> TRUE, msg |-> "", detail |-> <<>>]
                ELSE _validate_all_series_frequency(df, names, expected_periodicity)
       IN  IF r.ok THEN pc' = "target" /\ UNCHANGED error
           ELSE Raise("MixedFrequencyError", r.msg, r.detail)
    /\ UNCHANGED <<library_vars, inputs, df, expr_ast, referenced, names, target_idx, tol, aligned,
                   result_series, warnings, out>>

\* line 138 with the union taken over every column of the table
BuildTargetIndexAllColumns ==
    /\ pc = "target"
    /\ target_idx' = _union_index([k \in DOMAIN Sorted(DOMAIN df.cols) |->
                                      NonMissingIndex(df, Sorted(DOMAIN df.cols)[k])])
    /\ pc' = "tolerance"
    /\ UNCHANGED <<library_vars, inputs, df, expr_ast, referenced, names, tol, aligned,
                   result_series, warnings, out, error>>

\* line 138
BuildTargetIndex ==
    /\ pc = "target"
    /\ target_idx' = _union_index([k \in DOMAIN names |-> NonMissingIndex(df, names[k])])
    /\ pc' = "tolerance"
    /\ UNCHANGED <<library_vars, inputs, df, expr_ast, referenced, names, tol, aligned,
                   result_series, warnings, out, error>>

\* lines 141-143
ResolveTolerance ==
    /\ pc = "tolerance"
    /\ tol' = _resolve_tolerance(cross_align_tolerance, expected_periodicity)
    /\ warnings' = <<>>
    /\ pc' = "align"
    /\ UNCHANGED <<library_vars, inputs, df, expr_ast, referenced, names, target_idx, aligned,
                   result_series, out, error>>

\* lines 144-150 taking the as-of branch whatever the policy
AlignSeriesAsofOnly ==
    /\ pc = "align"
    /\ IF \E n \in referenced : AsofRaises(Column(df, n), tol)
       THEN Raise("MergeError", "tolerance must be positive", <<>>) /\ UNCHANGED aligned
       ELSE /\ aligned' = [n \in referenced |->
                              _asof_align_series(Column(df, n), target_idx, tol)]
            /\ pc' = "evaluate"
            /\ UNCHANGED error
    /\ UNCHANGED <<library_vars, inputs, df, expr_ast, referenced, names, target_idx, tol,
                   result_series, warnings, out>>

\* lines 144-150: the whole loop over `referenced`
AlignSeries ==
    /\ pc = "align"
    /\ IF cross_align # "exact" /\ \E n \in referenced : AsofRaises(Column(df, n), tol)
       THEN Raise("MergeError", "tolerance must be positive", <<>>) /\ UNCHANGED aligned
       ELSE /\ aligned' = [n \in referenced |->
                              IF cross_align = "exact"
                              THEN reindex(Column(df, n), target_idx)
                              ELSE _asof_align_series(Column(df, n), target_idx, tol)]
            /\ pc' = "evaluate"
            /\ UNCHANGED error
    /\ UNCHANGED <<library_vars, inputs, df, expr_ast, referenced, names, target_idx, tol,
                   result_series, warnings, out>>

\* line 153
EvaluateExpr ==
    /\ pc = "evaluate"
    /\ result_series' = _evaluate_expr(expr_ast, aligned, names)
    /\ pc' = "postprocess"
    /\ UNCHANGED <<library_vars, inputs, df, expr_ast, referenced, names, target_idx, tol, aligned,
                   warnings, out, error>>

HasInf(s) == \E i \in DOMAIN s.values : IsInf(s.values[i])

\* lines 156-158
ReplaceInfinities ==
    /\ pc = "postprocess"
    /\ IF HasInf(result_series)
       THEN /\ warnings' = Append(warnings, "Division by zero encountered; converted inf to NaN.")
            /\ result_series' = ReplaceInf(result_series)
       ELSE UNCHANGED <<warnings, result_series>>
    /\ pc' = "output"
    /\ UNCHANGED <<library_vars, inputs, df, expr_ast, referenced, names, target_idx, tol, aligned,
                   out, error>>

Meta ==
    [formula |-> formula,
     aliases |-> dict_copy(aliases),
     resolved_columns |-> [n \in referenced |-> n],
     referenced_aliases |-> Sorted(referenced),
     expected_periodicity |-> expected_periodicity,
     frequency_check |-> _summarize_frequency(df, names, expected_periodicity),
     cross_align |-> cross_align,
     cross_align_tolerance |-> TimedeltaStr(tol),
     warnings |-> warnings,
     index_span |-> IF result_series.index = <<>> THEN <<>>
                    ELSE <<result_series.index[1],
                           result_series.index[Len(result_series.index)]>>,
     row_counts |-> [n \in referenced |->
                        Cardinality({i \in DOMAIN aligned[n].values :
                                        ~IsNaN(aligned[n].values[i])})]]

\* lines 161-182
BuildOutput ==
    /\ pc = "output"
    /\ out' = [returned |-> TRUE, series |-> result_series, meta |-> Meta]
    /\ pc' = "done"
    /\ UNCHANGED <<library_vars, inputs, df, expr_ast, referenced, names, target_idx, tol, aligned,
                   result_series, warnings, error>>

Next ==
    \/ SortIndex
    \/ ParseFormula
    \/ CheckReferenced
    \/ EnforceUniformFrequency
    \/ ValidateExpected
    \/ BuildTargetIndex
    \/ ResolveTolerance
    \/ AlignSeries
    \/ EvaluateExpr
    \/ ReplaceInfinities
    \/ BuildOutput

\* the state on entry to compute_custom_index
Entry ==
    /\ pc = "start"
    /\ df = EmptyFrame
    /\ expr_ast = Name("")
    /\ referenced = {}
    /\ names = <<>>
    /\ target_idx = <<>>
    /\ tol = Unset
    /\ aligned = <<>>
    /\ result_series = EmptySeries
    /\ warnings = <<>>
    /\ out = NoOutput
    /\ error = NoError

-----------------------------------------------------------------------------
(* Chart library: strings, identifiers, dataclasses and their dict forms   *)

\* A str that the code normalises is a sequence of characters.
Whitespace == {" "}
lower(c) ==
    CASE c = "A" -> "a" [] c = "B" -> "b" [] c = "X" -> "x" [] c = "Y" -> "y"
      [] OTHER -> c
str_lower(s) == [i \in DOMAIN s |-> lower(s[i])]
RECURSIVE str_lstrip(_)
str_lstrip(s) ==
    IF s # <<>> /\ Head(s) \in Whitespace THEN str_lstrip(Tail(s)) ELSE s
RECURSIVE str_rstrip(_)
str_rstrip(s) ==
    IF s # <<>> /\ s[Len(s)] \in Whitespace
    THEN str_rstrip(SubSeq(s, 1, Len(s) - 1)) ELSE s
str_strip(s) == str_rstrip(str_lstrip(s))
\* s.replace(" ", "-")
str_replace_space(s) == [i \in DOMAIN s |-> IF s[i] = " " THEN "-" ELSE s[i]]

LIBRARY_SCHEMA_VERSION == 1
CHART_SCHEMA_VERSION == 1

\* A folder id is the str "<slug>-<hex>"; the root's is "root"; None is None.
FolderId(slug, hex) == [slug |-> slug, hex |-> hex]
ROOT_FOLDER_ID == FolderId(<<"r", "o", "o", "t">>, "")
NoneId == FolderId(<<>>, "None")

\* _generate_folder_id with uuid4().hex[:8] = hex
_generate_folder_id(name, hex) ==
    LET slug == str_replace_space(str_lower(str_strip(name)))
    IN  FolderId(IF slug = <<>> THEN <<"f", "o", "l", "d", "e", "r">> ELSE slug, hex)

\* {}: a dict without keys
EmptyDict == [k \in {} |-> 0]
\* payload.get(key) or default
GetOr(payload, key, falsy, default) ==
    IF key \in DOMAIN payload /\ payload[key] \notin falsy THEN payload[key]
    ELSE default

\* ChartSnapshot.from_dict; `t` is what _now_iso() returns if it is called.
\* series_order and formatting are read the way series_store is and are
\* carried in it.
ChartSnapshot_from_dict(payload, t) ==
    IF "chart_id" \notin DOMAIN payload \/ "display_name" \notin DOMAIN payload
    THEN [ok |-> FALSE, raised |-> "InvalidPayloadError"]
    ELSE LET created_at == GetOr(payload, "created_at", {0}, t)
         IN  [ok |-> TRUE,
              value |->
                [class |-> "ChartSnapshot",
                 chart_id |-> payload.chart_id,
                 display_name |-> payload.display_name,
                 series_store |-> GetOr(payload, "series_store", {"{}"}, "{}"),
                 interaction_state |-> GetOr(payload, "interaction_state", {}, "None"),
                 created_at |-> created_at,
                 updated_at |-> GetOr(payload, "updated_at", {0}, created_at),
                 schema_version |->
                    GetOr(payload, "schema_version", {0}, CHART_SCHEMA_VERSION)]]

ChartSnapshot_to_dict(self) ==
    [chart_id |-> self.chart_id,
     display_name |-> self.display_name,
     series_store |-> self.series_store,
     created_at |-> self.created_at,
     updated_at |-> self.updated_at,
     schema_version |-> self.schema_version,
     interaction_state |-> self.interaction_state]

\* updated_copy(updates, timestamp=t): to_dict, update, stamp, from_dict
updated_copy(self, updates, t) ==
    LET base == ChartSnapshot_to_dict(self)
        merged == [k \in DOMAIN base \cup DOMAIN updates |->
                      IF k = "updated_at" THEN t
                      ELSE IF k \in DOMAIN updates THEN updates[k] ELSE base[k]]
    IN  ChartSnapshot_from_dict(merged, t)

Folder_from_dict(payload) ==
    [class |-> "Folder",
     folder_id |-> payload.folder_id,
     name |-> payload.name,
     parent_id |-> payload.parent_id,
     children |-> payload.children,
     charts |-> payload.charts]

Folder_to_dict(self) ==
    [folder_id |-> self.folder_id,
     name |-> self.name,
     parent_id |-> self.parent_id,
     children |-> self.children,
     charts |-> self.charts]

\* ChartLibrary.empty()
ChartLibrary_empty ==
    [class |-> "ChartLibrary",
     folders |-> (ROOT_FOLDER_ID :>
                    [class |-> "Folder", folder_id |-> ROOT_FOLDER_ID,
                     name |-> <<"R", "o", "o", "t">>, parent_id |-> NoneId,
                     children |-> <<>>, charts |-> <<>>]),
     charts |-> EmptyDict,
     root_folder_id |-> ROOT_FOLDER_ID,
     schema_version |-> LIBRARY_SCHEMA_VERSION]

\* ChartLibrary.from_dict of a payload that to_dict wrote
ChartLibrary_from_dict(payload, t) ==
    [class |-> "ChartLibrary",
     folders |-> [f \in DOMAIN payload.folders |-> Folder_from_dict(payload.folders[f])],
     charts |-> [c \in DOMAIN payload.charts |->
                    ChartSnapshot_from_dict(payload.charts[c], t).value],
     root_folder_id |-> payload.root_folder_id,
     schema_version |-> GetOr(payload, "schema_version", {0}, LIBRARY_SCHEMA_VERSION)]

ChartLibrary_to_dict(self) ==
    [schema_version |-> self.schema_version,
     root_folder_id |-> self.root_folder_id,
     folders |-> [f \in DOMAIN self.folders |-> Folder_to_dict(self.folders[f])],
     charts |-> [c \in DOMAIN self.charts |-> ChartSnapshot_to_dict(self.charts[c])]]

-----------------------------------------------------------------------------
(* Chart library: storage                                                  *)

\* json.dumps gives the text of a document, json.loads the document of a text
json_dumps(document) == [text |-> document]
json_loads(text) == text.text

\* InMemoryChartLibraryStorage holds a dict, JsonFileChartLibraryStorage a
\* file that may not exist yet
NoFile == [exists |-> FALSE]
InMemoryChartLibraryStorage(initial) == [kind |-> "memory", holds |-> initial]
JsonFileChartLibraryStorage(file) == [kind |-> "json", holds |-> file]

\* storage.read()
read(st) ==
    IF st.kind = "memory" THEN json_loads(json_dumps(st.holds))
    ELSE IF st.holds = NoFile THEN EmptyDict
    ELSE json_loads(st.holds)

\* storage.write(payload): the in-memory storage always succeeds; the file
\* storage either replaces the file or, when every attempt failed, raises
\* and leaves the file as it was
write(st, payload, succeeds) ==
    IF st.kind = "memory"
    THEN [raised |-> "", storage |-> InMemoryChartLibraryStorage(json_loads(json_dumps(payload)))]
    ELSE IF succeeds
    THEN [raised |-> "", storage |-> JsonFileChartLibraryStorage(json_dumps(payload))]
    ELSE [raised |-> "ChartLibraryStorageError", storage |-> st]

load_library(st, t) ==
    LET payload == read(st)
    IN  IF DOMAIN payload = {} THEN ChartLibrary_empty
        ELSE ChartLibrary_from_dict(payload, t)

_persist_library(st, library, succeeds) == write(st, ChartLibrary_to_dict(library), succeeds)

-----------------------------------------------------------------------------
(* Chart library: operations                                               *)

NoLibrary == [class |-> "None"]
NoCall == [op |-> ""]
Returned(library) == [raised |-> "", library |-> library]
Raised(type) == [raised |-> type, library |-> NoLibrary]

\* _resolve_folder_by_path: the key of the folder the path leads to
RECURSIVE FollowPath(_, _, _)
FollowPath(library, folder, rest) ==
    IF rest = <<>> THEN [ok |-> TRUE, folder |-> folder]
    ELSE IF \/ Head(rest) \notin DOMAIN library.folders
            \/ library.folders[Head(rest)].parent_id # library.folders[folder].folder_id
    THEN [ok |-> FALSE, raised |-> "NotFoundError"]
    ELSE FollowPath(library, Head(rest), Tail(rest))

_resolve_folder_by_path(library, path) ==
    IF path = <<>> \/ Head(path) \notin DOMAIN library.folders
    THEN [ok |-> FALSE, raised |-> "NotFoundError"]
    ELSE FollowPath(library, Head(path), Tail(path))

\* list.remove: without the first occurrence
RemoveFirst(list, x) ==
    LET hits == {i \in DOMAIN list : list[i] = x}
        i == CHOOSE k \in hits : \A j \in hits : k <= j
    IN  IF hits = {} THEN list
        ELSE SubSeq(list, 1, i - 1) \o SubSeq(list, i + 1, Len(list))

\* the test of `existing_chart_id` left out
_assert_unique_display_name_any_chart(library, folder, display_name, existing_chart_id) ==
    \E i \in DOMAIN library.folders[folder].charts :
        LET chart_id == library.folders[folder].charts[i]
        IN  /\ chart_id \in DOMAIN library.charts
            /\ str_lower(str_strip(library.charts[chart_id].display_name))
                  = str_lower(str_strip(display_name))

\* TRUE when _assert_unique_display_name raises NameConflictError
_assert_unique_display_name(library, folder, display_name, existing_chart_id) ==
    \E i \in DOMAIN library.folders[folder].charts :
        LET chart_id == library.folders[folder].charts[i]
        IN  /\ chart_id # existing_chart_id
            /\ chart_id \in DOMAIN library.charts
            /\ str_lower(str_strip(library.charts[chart_id].display_name))
                  = str_lower(str_strip(display_name))

\* no folder is touched
_detach_from_no_folder(library, chart_id, keep) == library

_detach_from_other_folders(library, chart_id, keep) ==
    [library EXCEPT !.folders =
        [f \in DOMAIN library.folders |->
            IF library.folders[f].folder_id = keep THEN library.folders[f]
            ELSE [library.folders[f] EXCEPT !.charts = RemoveFirst(@, chart_id)]]]

\* lines 216-218 appending without the test of line 217
AddChartAlwaysAppending(library, folder, snapshot) ==
    [library EXCEPT
        !.charts = (snapshot.chart_id :> snapshot) @@ library.charts,
        !.folders[folder].charts = Append(@, snapshot.chart_id)]

\* lines 216-218
AddChart(library, folder, snapshot) ==
    [library EXCEPT
        !.charts = (snapshot.chart_id :> snapshot) @@ library.charts,
        !.folders[folder].charts =
            IF \E i \in DOMAIN @ : @[i] = snapshot.chart_id THEN @
            ELSE Append(@, snapshot.chart_id)]

\* the operation ends: the storage, the outcome, the clock
Finish(op, args, st, outcome, t) ==
    /\ call' = [op |-> op, args |-> args]
    /\ storage' = st
    /\ result' = outcome
    /\ now' = t
    /\ ops' = ops + 1
    /\ writer' = writer
    /\ UNCHANGED <<inputs, pc, df, expr_ast, referenced, names, target_idx, tol,
                   aligned, result_series, warnings, out, error>>

\* save_chart, lines 204-222.  t1 and t2 are the two readings of the clock
\* (lines 213 and 214); `succeeds` is whether storage.write does.
save_chart_with(folder_path, snapshot_payload, t1, t2, succeeds) ==
    LET args == [folder_path |-> folder_path, snapshot_payload |-> snapshot_payload]
        library == load_library(storage, now)
        found == _resolve_folder_by_path(library, folder_path)
        parsed == ChartSnapshot_from_dict(snapshot_payload, t1)
        snapshot == updated_copy(parsed.value, EmptyDict, t2).value
        saved == _detach_from_other_folders(
                     AddChart(library, found.folder, snapshot),
                     snapshot.chart_id, library.folders[found.folder].folder_id)
        written == _persist_library(storage, saved, succeeds)
    IN  IF ~found.ok THEN Finish("save_chart", args, storage, Raised(found.raised), now)
        ELSE IF ~parsed.ok
        THEN Finish("save_chart", args, storage, Raised(parsed.raised), now)
        ELSE IF _assert_unique_display_name(library, found.folder,
                                            snapshot.display_name, snapshot.chart_id)
        THEN Finish("save_chart", args, storage, Raised("NameConflictError"), t2)
        ELSE IF written.raised # ""
        THEN Finish("save_chart", args, storage, Raised(written.raised), t2)
        ELSE Finish("save_chart", args, written.storage, Returned(saved), t2)

\* create_folder, lines 290-306; `hex` is uuid4().hex[:8]
_ensure_unique_folder_name(library, parent, name, exclude) ==
    \E i \in DOMAIN library.folders[parent].children :
        LET child_id == library.folders[parent].children[i]
        IN  /\ child_id # exclude
            /\ str_lower(str_strip(library.folders[child_id].name))
                  = str_lower(str_strip(name))

create_folder_with(parent_path, name, hex, succeeds) ==
    LET args == [parent_path |-> parent_path, name |-> name]
        library == load_library(storage, now)
        found == _resolve_folder_by_path(library, parent_path)
        folder_id == _generate_folder_id(name, hex)
        new_folder == [class |-> "Folder", folder_id |-> folder_id, name |-> name,
                       parent_id |-> library.folders[found.folder].folder_id,
                       children |-> <<>>, charts |-> <<>>]
        \* line 302 replaces whatever folder had that id; line 303 appends to
        \* the parent object, which the library holds unless it was replaced
        created ==
            IF folder_id = found.folder
            THEN [library EXCEPT !.folders[folder_id] = new_folder]
            ELSE [library EXCEPT
                    !.folders = (folder_id :> new_folder) @@
                        [library.folders EXCEPT ![found.folder].children =
                            Append(@, folder_id)]]
        written == _persist_library(storage, created, succeeds)
    IN  IF ~found.ok THEN Finish("create_folder", args, storage, Raised(found.raised), now)
        ELSE IF _ensure_unique_folder_name(library, found.folder, name, NoneId)
        THEN Finish("create_folder", args, storage, Raised("NameConflictError"), now)
        ELSE IF written.raised # ""
        THEN Finish("create_folder", args, storage, Raised(written.raised), now)
        ELSE Finish("create_folder", args, written.storage, Returned(created), now)

\* _find_folder_containing_chart: the key of the first folder that lists the
\* chart; a chart of the library is listed by at most one folder
_find_folder_containing_chart(library, chart_id) ==
    LET holders == {f \in DOMAIN library.folders :
                      \E i \in DOMAIN library.folders[f].charts :
                          library.folders[f].charts[i] = chart_id}
    IN  IF holders = {} THEN [ok |-> FALSE, raised |-> "NotFoundError"]
        ELSE [ok |-> TRUE, folder |-> CHOOSE f \in holders : TRUE]

\* update_chart, lines 225-243; t is the reading of the clock of line 239
update_chart_with(chart_id, updates, t, succeeds) ==
    LET args == [chart_id |-> chart_id, updates |-> updates]
        library == load_library(storage, now)
        found == _find_folder_containing_chart(library, chart_id)
        snapshot == updated_copy(library.charts[chart_id], updates, t).value
        updated == [library EXCEPT !.charts[chart_id] = snapshot]
        written == _persist_library(storage, updated, succeeds)
    IN  IF chart_id \notin DOMAIN library.charts
        THEN Finish("update_chart", args, storage, Raised("NotFoundError"), now)
        ELSE IF "display_name" \in DOMAIN updates /\ ~found.ok
        THEN Finish("update_chart", args, storage, Raised(found.raised), now)
        ELSE IF /\ "display_name" \in DOMAIN updates
                /\ _assert_unique_display_name(library, found.folder,
                                               updates.display_name, chart_id)
        THEN Finish("update_chart", args, storage, Raised("NameConflictError"), now)
        ELSE IF written.raised # ""
        THEN Finish("update_chart", args, storage, Raised(written.raised), t)
        ELSE Finish("update_chart", args, written.storage, Returned(updated), t)

\* line 256 alone: the folders keep their reference
RemoveChartKeepingReferences(library, chart_id) ==
    [library EXCEPT
        !.charts = [c \in DOMAIN library.charts \ {chart_id} |-> library.charts[c]]]

\* lines 256-259
RemoveChart(library, chart_id) ==
    [library EXCEPT
        !.charts = [c \in DOMAIN library.charts \ {chart_id} |-> library.charts[c]],
        !.folders = [f \in DOMAIN library.folders |->
                        [library.folders[f] EXCEPT !.charts = RemoveFirst(@, chart_id)]]]

\* delete_chart, lines 246-261
delete_chart_with(chart_id, succeeds) ==
    LET args == [chart_id |-> chart_id]
        library == load_library(storage, now)
        deleted == RemoveChart(library, chart_id)
        written == _persist_library(storage, deleted, succeeds)
    IN  IF chart_id \notin DOMAIN library.charts
        THEN Finish("delete_chart", args, storage, Raised("NotFoundError"), now)
        ELSE IF written.raised # ""
        THEN Finish("delete_chart", args, storage, Raised(written.raised), now)
        ELSE Finish("delete_chart", args, written.storage, Returned(deleted), now)

\* lines 278-279 without the detaching of line 277
PlaceChartWithoutDetaching(library, folder, chart_id) ==
    [library EXCEPT !.folders[folder].charts =
        IF \E i \in DOMAIN @ : @[i] = chart_id THEN @ ELSE Append(@, chart_id)]

\* lines 277-279
PlaceChart(library, folder, chart_id) ==
    LET detached == _detach_from_other_folders(library, chart_id,
                                               library.folders[folder].folder_id)
    IN  [detached EXCEPT !.folders[folder].charts =
            IF \E i \in DOMAIN @ : @[i] = chart_id THEN @ ELSE Append(@, chart_id)]

\* move_chart, lines 264-287
move_chart_with(chart_id, destination_path, succeeds) ==
    LET args == [chart_id |-> chart_id, destination_path |-> destination_path]
        library == load_library(storage, now)
        found == _resolve_folder_by_path(library, destination_path)
        moved == PlaceChart(library, found.folder, chart_id)
        written == _persist_library(storage, moved, succeeds)
    IN  IF chart_id \notin DOMAIN library.charts
        THEN Finish("move_chart", args, storage, Raised("NotFoundError"), now)
        ELSE IF ~found.ok
        THEN Finish("move_chart", args, storage, Raised(found.raised), now)
        ELSE IF _assert_unique_display_name(library, found.folder,
                        library.charts[chart_id].display_name, chart_id)
        THEN Finish("move_chart", args, storage, Raised("NameConflictError"), now)
        ELSE IF written.raised # ""
        THEN Finish("move_chart", args, storage, Raised(written.raised), now)
        ELSE Finish("move_chart", args, written.storage, Returned(moved), now)

\* rename_folder, lines 309-326
rename_folder_with(folder_id, new_name, succeeds) ==
    LET args == [folder_id |-> folder_id, new_name |-> new_name]
        library == load_library(storage, now)
        folder == library.folders[folder_id]
        renamed == [library EXCEPT !.folders[folder_id].name = new_name]
        written == _persist_library(storage, renamed, succeeds)
    IN  IF folder_id \notin DOMAIN library.folders
        THEN Finish("rename_folder", args, storage, Raised("NotFoundError"), now)
        ELSE IF /\ folder.parent_id # NoneId
                /\ _ensure_unique_folder_name(library, folder.parent_id, new_name,
                                              folder.folder_id)
        THEN Finish("rename_folder", args, storage, Raised("NameConflictError"), now)
        ELSE IF written.raised # ""
        THEN Finish("rename_folder", args, storage, Raised(written.raised), now)
        ELSE Finish("rename_folder", args, written.storage, Returned(renamed), now)

\* lines 343-346
RemoveFolder(library, folder_id) ==
    LET parent_id == library.folders[folder_id].parent_id
        unlinked ==
            IF parent_id = NoneId THEN library
            ELSE [library EXCEPT !.folders[parent_id].children =
                     SelectSeq(@, LAMBDA child : child # folder_id)]
    IN  [unlinked EXCEPT
            !.folders = [f \in DOMAIN unlinked.folders \ {folder_id} |->
                            unlinked.folders[f]]]

\* delete_folder with the test of line 341 made after the library is persisted
delete_folder_checking_late(folder_id, succeeds) ==
    LET args == [folder_id |-> folder_id]
        library == load_library(storage, now)
        folder == library.folders[folder_id]
        deleted == RemoveFolder(library, folder_id)
        written == _persist_library(storage, deleted, succeeds)
    IN  IF folder_id = ROOT_FOLDER_ID
        THEN Finish("delete_folder", args, storage, Raised("ChartLibraryError"), now)
        ELSE IF folder_id \notin DOMAIN library.folders
        THEN Finish("delete_folder", args, storage, Raised("NotFoundError"), now)
        ELSE IF written.raised # ""
        THEN Finish("delete_folder", args, storage, Raised(written.raised), now)
        ELSE IF folder.children # <<>> \/ folder.charts # <<>>
        THEN Finish("delete_folder", args, written.storage,
                    Raised("FolderNotEmptyError"), now)
        ELSE Finish("delete_folder", args, written.storage, Returned(deleted), now)

\* delete_folder, lines 329-349
delete_folder_with(folder_id, succeeds) ==
    LET args == [folder_id |-> folder_id]
        library == load_library(storage, now)
        folder == library.folders[folder_id]
        deleted == RemoveFolder(library, folder_id)
        written == _persist_library(storage, deleted, succeeds)
    IN  IF folder_id = ROOT_FOLDER_ID
        THEN Finish("delete_folder", args, storage, Raised("ChartLibraryError"), now)
        ELSE IF folder_id \notin DOMAIN library.folders
        THEN Finish("delete_folder", args, storage, Raised("NotFoundError"), now)
        ELSE IF folder.children # <<>> \/ folder.charts # <<>>
        THEN Finish("delete_folder", args, storage, Raised("FolderNotEmptyError"), now)
        ELSE IF written.raised # ""
        THEN Finish("delete_folder", args, storage, Raised(written.raised), now)
        ELSE Finish("delete_folder", args, written.storage, Returned(deleted), now)

\* the operations called on one storage are at most MaxOps
MaxOps == 2

FolderNames == {<<"X">>, <<" ", "x">>}
\* the values uuid4().hex[:8] takes
HexSuffixes == {"0a", "0b"}
UnknownFolderId == FolderId(<<"n", "o">>, "ne")

\* what callers pass as snapshot_payload: with and without created_at, and
\* one without chart_id
SnapshotPayloads ==
    {[chart_id |-> "chart-1", display_name |-> n, series_store |-> "S"] :
        n \in {<<"A", "b">>, <<"Y">>}}
    \cup {[chart_id |-> "chart-2", display_name |-> n, series_store |-> "S"] :
        n \in {<<" ", "a", "B", " ">>, <<"Y">>}}
    \cup {[chart_id |-> "chart-1", display_name |-> <<"Y">>, series_store |-> "S",
           created_at |-> 1, schema_version |-> 2, interaction_state |-> "I"],
          [display_name |-> <<"Y">>]}

\* the paths callers pass: empty, unknown, one folder, two folders
FolderPaths ==
    LET ids == DOMAIN load_library(storage, now).folders
    IN  {<<>>, <<UnknownFolderId>>}
        \cup {<<f>> : f \in ids}
        \cup {p \in ids \X ids : p[1] # p[2]}

\* whether storage.write succeeds: always in memory, not always on a disk
WriteOutcomes == IF storage.kind = "memory" THEN {TRUE} ELSE BOOLEAN

save_chart ==
    /\ ops < MaxOps
    /\ \E folder_path \in FolderPaths, snapshot_payload \in SnapshotPayloads,
          t2 \in {now, now + 1}, succeeds \in WriteOutcomes :
             save_chart_with(folder_path, snapshot_payload, now, t2, succeeds)

\* uuid4 gives an id no folder of the library has
create_folder ==
    /\ ops < MaxOps
    /\ \E parent_path \in FolderPaths, name \in FolderNames, hex \in HexSuffixes,
          succeeds \in WriteOutcomes :
          /\ _generate_folder_id(name, hex)
                \notin DOMAIN load_library(storage, now).folders
          /\ create_folder_with(parent_path, name, hex, succeeds)

\* the chart ids callers pass: chart-9 is never saved
ChartIds == {"chart-1", "chart-2", "chart-9"}
\* a new name, a new content
ChartUpdates ==
    {[display_name |-> <<" ", "a", "B", " ">>], [series_store |-> "T"]}
FolderIds == DOMAIN load_library(storage, now).folders \cup {UnknownFolderId}

update_chart ==
    /\ ops < MaxOps
    /\ \E chart_id \in ChartIds, updates \in ChartUpdates, t \in {now, now + 1},
          succeeds \in WriteOutcomes :
          update_chart_with(chart_id, updates, t, succeeds)

delete_chart ==
    /\ ops < MaxOps
    /\ \E chart_id \in ChartIds, succeeds \in WriteOutcomes :
          delete_chart_with(chart_id, succeeds)

move_chart ==
    /\ ops < MaxOps
    /\ \E chart_id \in ChartIds, destination_path \in FolderPaths,
          succeeds \in WriteOutcomes :
          move_chart_with(chart_id, destination_path, succeeds)

rename_folder ==
    /\ ops < MaxOps
    /\ \E folder_id \in FolderIds, new_name \in FolderNames,
          succeeds \in WriteOutcomes :
          rename_folder_with(folder_id, new_name, succeeds)

delete_folder ==
    /\ ops < MaxOps
    /\ \E folder_id \in FolderIds, succeeds \in WriteOutcomes :
          delete_folder_with(folder_id, succeeds)

NextLibrary ==
    \/ save_chart
    \/ update_chart
    \/ move_chart
    \/ delete_chart
    \/ create_folder
    \/ rename_folder
    \/ delete_folder

\* a library that earlier calls left in the storage: folder "X" under the
\* root and chart-1 "Ab" in the root
SeededLibrary ==
    LET x == _generate_folder_id(<<"X">>, "0a")
        folders == (x :> [class |-> "Folder", folder_id |-> x, name |-> <<"X">>,
                          parent_id |-> ROOT_FOLDER_ID, children |-> <<>>,
                          charts |-> <<>>])
                   @@ [ChartLibrary_empty.folders EXCEPT
                         ![ROOT_FOLDER_ID].children = <<x>>]
        chart == ChartSnapshot_from_dict(
                    [chart_id |-> "chart-1", display_name |-> <<"A", "b">>,
                     series_store |-> "S"], 1).value
    IN  AddChart([ChartLibrary_empty EXCEPT !.folders = folders], ROOT_FOLDER_ID, chart)

-----------------------------------------------------------------------------
(* JsonFileChartLibraryStorage.write, statement by statement               *)

\* max_write_attempts when the caller gives none
DefaultMaxWriteAttempts == 3

\* the locals of write and the temporary files it made, in the order of
\* their making: "empty", "partial", "complete" (all of `data` is in it),
\* "renamed" (it became the target) or "removed"
WriterIdle ==
    [pc |-> "idle", max_write_attempts |-> DefaultMaxWriteAttempts,
     attempts_remaining |-> 0, attempts |-> 0, tmp_file |-> 0, temps |-> <<>>,
     data |-> json_dumps(EmptyDict)]

WriterStep(next) ==
    /\ writer' = next
    /\ UNCHANGED <<inputs, pc, df, expr_ast, referenced, names, target_idx, tol,
                   aligned, result_series, warnings, out, error, call, now, ops>>

\* lines 58-61: the directory, the text, the counter.  mkdir is outside the
\* try: when it fails its OSError leaves write as it is.
write_begin ==
    /\ writer.pc = "call"
    /\ \/ /\ WriterStep([writer EXCEPT
                   !.pc = "loop",
                   !.data = json_dumps(call.args.payload),
                   !.attempts_remaining = writer.max_write_attempts])
          /\ UNCHANGED <<storage, result>>
       \/ /\ WriterStep([writer EXCEPT !.pc = "raised"])
          /\ result' = Raised("OSError")
          /\ UNCHANGED storage

\* lines 63-65; the loop left without an attempt succeeding or raising ends
\* the function, which returns None
write_loop ==
    /\ writer.pc = "loop"
    /\ IF writer.attempts_remaining > 0
       THEN /\ WriterStep([writer EXCEPT
                    !.pc = "open",
                    !.attempts_remaining = @ - 1,
                    !.attempts = @ + 1,
                    !.tmp_file = 0])
            /\ UNCHANGED <<storage, result>>
       ELSE /\ WriterStep([writer EXCEPT !.pc = "returned"])
            /\ result' = Returned(NoLibrary)
            /\ UNCHANGED storage

\* lines 67-72: NamedTemporaryFile(dir=directory, delete=False), or OSError
write_open ==
    /\ writer.pc = "open"
    /\ \/ WriterStep([writer EXCEPT !.pc = "fill", !.temps = Append(@, "empty")])
       \/ WriterStep([writer EXCEPT !.pc = "failed"])
    /\ UNCHANGED <<storage, result>>

\* lines 73-76: write, flush, fsync and the name, which is taken last; an
\* OSError of write leaves a part of the text in the file, one of flush or
\* fsync all of it, and tmp_file is None in both cases
write_fill ==
    /\ writer.pc = "fill"
    /\ LET last == Len(writer.temps)
       IN  \/ WriterStep([writer EXCEPT !.pc = "replace", !.tmp_file = last,
                                        !.temps[last] = "complete"])
           \/ \E left \in {"partial", "complete"} :
                 WriterStep([writer EXCEPT !.pc = "failed", !.temps[last] = left])
    /\ UNCHANGED <<storage, result>>

\* lines 78-79: os.replace(tmp_file, self._path) and return, or OSError
write_replace ==
    /\ writer.pc = "replace"
    /\ \/ /\ WriterStep([writer EXCEPT !.pc = "returned",
                                         !.temps[writer.tmp_file] = "renamed"])
          /\ storage' = JsonFileChartLibraryStorage(writer.data)
          /\ result' = Returned(NoLibrary)
       \/ /\ WriterStep([writer EXCEPT !.pc = "failed"])
          /\ UNCHANGED <<storage, result>>

\* lines 80-91: the temporary file is unlinked when its name is known (the
\* unlink may fail), then the error is raised or the loop goes on
write_except ==
    /\ writer.pc = "failed"
    /\ \E unlinked \in IF writer.tmp_file = 0 THEN {FALSE} ELSE BOOLEAN :
          LET temps == IF unlinked
                       THEN [writer.temps EXCEPT ![writer.tmp_file] = "removed"]
                       ELSE writer.temps
          IN  IF writer.attempts_remaining = 0
              THEN /\ WriterStep([writer EXCEPT !.pc = "raised", !.temps = temps])
                   /\ result' = Raised("ChartLibraryStorageError")
              ELSE /\ WriterStep([writer EXCEPT !.pc = "loop", !.temps = temps])
                   /\ UNCHANGED result
    /\ UNCHANGED storage

NextWrite ==
    \/ write_begin
    \/ write_loop
    \/ write_open
    \/ write_fill
    \/ write_replace
    \/ write_except

\* no library operation has been called
LibraryIdle ==
    /\ call = NoCall
    /\ result = Returned(NoLibrary)
    /\ now = 1
    /\ ops = 0
    /\ writer = WriterIdle

-----------------------------------------------------------------------------
(* Inputs.  Four families of calls; each is a set of initial states.       *)

Frame(idx, cols) == [index |-> idx, cols |-> cols]
\* a dict is an object: `id` tells the caller's dict from any other
AliasSources ==
    [id |-> "caller",
     items |-> [a \in {"A", "B"} |->
                   IF a = "A" THEN "SPX Index:PX_LAST" ELSE "NDX Index:PX_LAST"]]
ExplicitTolerance(n) == [kind |-> "days", days |-> n]
AutoTolerance == [kind |-> "auto", days |-> 0]
UnboundedTolerance == [kind |-> "none", days |-> 0]

\* nesting depth of the formulas of the parser family
MaxDepth == 2
\* the tables of the alignment family have the days 0..MaxDay
MaxDay == 3
\* explicit tolerances are 0..MaxTol days
MaxTol == 2
\* the literals of the arithmetic family are 0..MaxLit
MaxLit == 1

(* Parser family: every node class, nested in valid expressions. *)
DisallowedBinOps == {"FloorDiv", "Mod", "MatMult", "BitAnd", "BitOr", "LShift"}
DisallowedUnaryOps == {"Not", "Invert"}

ParseBase ==
    {Name("A"), Name("Y"), Name("Z")}
    \cup {IntLit(1), Const("float", Int2F(2)), Const("bool", One),
          Const("str", NaN), Const("NoneType", NaN), Const("complex", NaN),
          Const("bytes", NaN), Const("ellipsis", NaN)}
    \cup {BinOp(op, Name("A"), IntLit(1)) : op \in _ALLOWED_BINOPS \cup DisallowedBinOps}
    \cup {BinOp("Add", IntLit(1), Name("A"))}
    \cup {UnaryOp(op, Name("A")) : op \in _ALLOWED_UNARYOPS \cup DisallowedUnaryOps}
    \cup {Node("Call", <<Name("f"), Name("A")>>), Node("Call", <<Name("A")>>),
          Node("Attribute", <<Name("A")>>),
          Node("Compare", <<Name("A"), IntLit(1)>>),
          Node("Subscript", <<Name("A"), IntLit(0)>>),
          Node("List", <<Name("A")>>), Node("Tuple", <<Name("A"), Name("Y")>>),
          Node("Dict", <<>>), Node("Set", <<IntLit(1)>>),
          Node("BoolOp", <<Name("A"), Name("Y")>>),
          Node("IfExp", <<Name("A"), IntLit(1), IntLit(0)>>),
          Node("Lambda", <<Name("A")>>)}

WrapLeaves == {Name("Y"), Name("Z"), Name("C"), IntLit(1)}

Wrap(S) ==
    {BinOp("Add", x, l) : x \in S, l \in WrapLeaves}
    \cup {BinOp("Mult", l, x) : x \in S, l \in WrapLeaves}
    \cup {UnaryOp("USub", x) : x \in S}

RECURSIVE Nested(_)
Nested(d) == IF d = 0 THEN ParseBase ELSE ParseBase \cup Wrap(Nested(d - 1))

ParseFormulas == {SyntaxErrorText} \cup {Parsed(b) : b \in Nested(MaxDepth)}

ParseTables ==
    {Frame(<<0, 1, 2>>,
           [c \in {"A", "B", "Y"} |->
               CASE c = "A" -> <<One, Int2F(2), NaN>>
                 [] c = "B" -> <<NaN, One, One>>
                 [] c = "Y" -> <<One, One, One>>]),
     Frame(<<0, 1>>, [c \in {"Y"} |-> <<One, Int2F(2)>>]),
     Frame(<<2, 0, 1>>, [c \in {"A", "Y"} |->
                           IF c = "A" THEN <<NaN, One, Int2F(2)>>
                           ELSE <<One, One, One>>]),
     Frame(<<>>, [c \in {"A", "C"} |-> <<>>])}

InitParse ==
    /\ Entry
    /\ LibraryIdle /\ storage = InMemoryChartLibraryStorage(EmptyDict)
    /\ data \in ParseTables
    /\ formula \in ParseFormulas
    /\ aliases = AliasSources
    /\ expected_periodicity = "None"
    /\ cross_align = "exact"
    /\ cross_align_tolerance = AutoTolerance

SpecParse == InitParse /\ [][Next]_vars

(* Frequency family: two columns over days one, two, five to seven and   *)
(* about ninety days apart, present or missing on each day.                *)
FreqDays == <<0, 1, 2, 7, 90>>

Presence(days, v) == [DOMAIN days -> {NaN, v}]

FreqTables ==
    {Frame(FreqDays, [c \in {"A", "B"} |-> IF c = "A" THEN a ELSE b]) :
        a \in Presence(FreqDays, One), b \in Presence(FreqDays, Int2F(2))}

FreqFormulas ==
    {Parsed(Name("A")),
     Parsed(BinOp("Add", Name("A"), Name("B"))),
     Parsed(BinOp("Mult", Name("A"), Name("B")))}

\* formulas over A alone: valid, with an unknown alias, without an alias,
\* with a call
FreqFormulasAOnly ==
    {Parsed(Name("A")),
     Parsed(BinOp("Add", Name("A"), Name("Z"))),
     Parsed(BinOp("Add", IntLit(1), IntLit(1))),
     Parsed(Node("Call", <<Name("f"), Name("A")>>)),
     SyntaxErrorText}

\* the tables of the family in which B is missing throughout
FreqTablesAOnly == {t \in FreqTables : \A i \in DOMAIN FreqDays : IsNaN(t.cols["B"][i])}

\* days whose gaps put medians on the edges of the bands and between them:
\* 3.5 (days 0, 3, 7), 4 (days 3, 7) and 50 (days 11, 61)
FreqDaysAtEdges == <<0, 3, 7, 11, 61>>
FreqTablesAtEdges ==
    {Frame(FreqDaysAtEdges, [c \in {"A", "B"} |-> IF c = "A" THEN a ELSE b]) :
        a \in Presence(FreqDaysAtEdges, One), b \in Presence(FreqDaysAtEdges, Int2F(2))}

\* A + B; A + B + Z, with an unknown alias; (1)(2), a call without an alias
FreqFormulasAtEdges ==
    {Parsed(BinOp("Add", Name("A"), Name("B"))),
     Parsed(BinOp("Add", BinOp("Add", Name("A"), Name("B")), Name("Z"))),
     Parsed(Node("Call", <<IntLit(1), IntLit(2)>>))}

InitFreq ==
    /\ Entry
    /\ LibraryIdle /\ storage = InMemoryChartLibraryStorage(EmptyDict)
    /\ aliases = AliasSources
    /\ cross_align \in {"exact", "asof"}
    /\ \/ /\ data \in FreqTables
          /\ formula \in FreqFormulas
          /\ expected_periodicity \in {"None", "DAILY", "QUARTERLY"}
          /\ cross_align_tolerance \in {AutoTolerance, ExplicitTolerance(1)}
       \/ /\ data \in FreqTablesAOnly
          /\ formula \in FreqFormulasAOnly
          /\ expected_periodicity \in {"None"} \cup Range(Labels)
          /\ cross_align_tolerance \in
                {AutoTolerance, UnboundedTolerance}
                \cup {ExplicitTolerance(n) : n \in 0..MaxTol}
       \/ /\ data \in FreqTablesAtEdges
          /\ formula \in FreqFormulasAtEdges
          /\ expected_periodicity = "None"
          /\ cross_align_tolerance = AutoTolerance

SpecFreq == InitFreq /\ [][Next]_vars

(* Alignment family: days 0..MaxDay; A is 10 + day, B is 20 + day, each    *)
(* present or missing per day (A may also be +inf on day 0); C is a column *)
(* no formula references.                                                  *)
AlignDays == [i \in 1..(MaxDay + 1) |-> i - 1]

AlignColumn(base, first) ==
    {[i \in DOMAIN AlignDays |-> IF i \in P THEN Int2F(base + AlignDays[i])
                                 ELSE IF i = 1 THEN first ELSE NaN] :
        P \in SUBSET DOMAIN AlignDays}

AlignTables ==
    {Frame(AlignDays,
           [c \in {"A", "B", "C"} |->
               CASE c = "A" -> a
                 [] c = "B" -> b
                 [] c = "C" -> [i \in DOMAIN AlignDays |-> Int2F(30 + AlignDays[i])]]) :
        a \in AlignColumn(10, NaN) \cup AlignColumn(10, PInf),
        b \in AlignColumn(20, NaN)}

AlignFormulas ==
    {Parsed(Name("A")), Parsed(BinOp("Add", Name("A"), Name("B")))}

Tolerances ==
    {AutoTolerance, UnboundedTolerance} \cup {ExplicitTolerance(n) : n \in -1..MaxTol}

InitAlign ==
    /\ Entry
    /\ LibraryIdle /\ storage = InMemoryChartLibraryStorage(EmptyDict)
    /\ data \in AlignTables
    /\ formula \in AlignFormulas
    /\ aliases = AliasSources
    /\ \/ expected_periodicity = "None" /\ cross_align_tolerance \in Tolerances
       \/ expected_periodicity = "DAILY" /\ cross_align_tolerance = AutoTolerance
    /\ cross_align \in {"exact", "asof"}

SpecAlign == InitAlign /\ [][Next]_vars

(* Arithmetic family: one row; every value of A, B (and C where the        *)
(* formula has it) among missing, 0, 1, -1 and +inf; every operator over   *)
(* two leaves, and every pair of operators over A, B and C.  An exponent   *)
(* is always a whole number.                                               *)
EvalValues == {NaN, Zero, One, Int2F(-1), PInf}
Operators == {"Add", "Sub", "Mult", "Div", "Pow"}
EvalLeaves == {Name("A"), Name("B")} \cup {IntLit(k) : k \in 0..MaxLit}

EvalFormulas2 ==
    {BinOp(op, x, y) : op \in Operators, x \in EvalLeaves, y \in EvalLeaves}
    \cup {UnaryOp(u, x) : u \in {"UAdd", "USub"}, x \in EvalLeaves}

EvalFormulas3 ==
    {BinOp(op2, BinOp(op1, Name("A"), Name("B")), Name("C")) :
        op1 \in Operators, op2 \in Operators}
    \cup {BinOp(op2, Name("C"), BinOp(op1, Name("A"), Name("B"))) :
        op1 \in Operators, op2 \in Operators \ {"Pow"}}
    \cup {BinOp("Pow", Name("C"), BinOp(op1, Name("A"), Name("B"))) :
        op1 \in {"Add", "Sub", "Mult"}}
    \cup {BinOp(op, UnaryOp("USub", Name("A")), Name("C")) : op \in Operators}
    \cup {UnaryOp("USub", BinOp(op, Name("A"), Name("C"))) : op \in Operators}

EvalTable(a, b, c) ==
    Frame(<<0>>, [n \in {"A", "B", "C"} |->
                     CASE n = "A" -> <<a>> [] n = "B" -> <<b>> [] n = "C" -> <<c>>])

InitEval ==
    /\ Entry
    /\ LibraryIdle /\ storage = InMemoryChartLibraryStorage(EmptyDict)
    /\ \/ /\ formula \in {Parsed(b) : b \in EvalFormulas2}
          /\ data \in {EvalTable(a, b, One) : a \in EvalValues, b \in EvalValues}
       \/ /\ formula \in {Parsed(b) : b \in EvalFormulas3}
          /\ data \in {EvalTable(a, b, c) :
                          a \in EvalValues, b \in EvalValues, c \in EvalValues}
    /\ aliases = AliasSources
    /\ expected_periodicity = "None"
    /\ cross_align = "exact"
    /\ cross_align_tolerance = AutoTolerance

SpecEval == InitEval /\ [][Next]_vars

(* Chart library family: an empty or a seeded storage of either kind.      *)
InitLibrary ==
    /\ Entry
    /\ data = Frame(<<>>, [c \in {"A"} |-> <<>>])
    /\ formula = Parsed(Name("A"))
    /\ aliases = AliasSources
    /\ expected_periodicity = "None"
    /\ cross_align = "exact"
    /\ cross_align_tolerance = AutoTolerance
    /\ LibraryIdle
    /\ storage \in
          {InMemoryChartLibraryStorage(EmptyDict),
           JsonFileChartLibraryStorage(NoFile),
           InMemoryChartLibraryStorage(ChartLibrary_to_dict(SeededLibrary)),
           JsonFileChartLibraryStorage(json_dumps(ChartLibrary_to_dict(SeededLibrary)))}

SpecLibrary == InitLibrary /\ [][NextLibrary]_vars

(* Write family: a JSON-file storage made with max_write_attempts from 0   *)
(* to MaxAttempts, whose file is missing or holds a library, and a write   *)
(* of a library's payload.                                                 *)
MaxAttempts == 3

WritePayloads ==
    {ChartLibrary_to_dict(ChartLibrary_empty), ChartLibrary_to_dict(SeededLibrary)}

InitWrite ==
    /\ Entry
    /\ data = Frame(<<>>, [c \in {"A"} |-> <<>>])
    /\ formula = Parsed(Name("A"))
    /\ aliases = AliasSources
    /\ expected_periodicity = "None"
    /\ cross_align = "exact"
    /\ cross_align_tolerance = AutoTolerance
    /\ now = 1
    /\ ops = 0
    /\ result = Returned(NoLibrary)
    /\ storage \in {JsonFileChartLibraryStorage(NoFile)}
                     \cup {JsonFileChartLibraryStorage(json_dumps(p)) : p \in WritePayloads}
    /\ \E payload \in WritePayloads, max_write_attempts \in 0..MaxAttempts :
          /\ call = [op |-> "write", args |-> [payload |-> payload]]
          /\ writer = [WriterIdle EXCEPT !.pc = "call",
                                         !.max_write_attempts = max_write_attempts]

SpecWrite == InitWrite /\ [][NextWrite]_vars

Init == InitParse \/ InitFreq \/ InitAlign \/ InitEval
Spec == Init /\ [][Next]_vars

-----------------------------------------------------------------------------
(* Vocabulary of the properties                                            *)

\* The kinds of error of the design, as the code signals them: the class of
\* the exception and the fixed head of its message.
ForbiddenMessages ==
    {"Forbidden expression element", "Operator not allowed",
     "Unary operator not allowed",
     "Only numeric constants are allowed in the formula."}
IsForbiddenExpressionError(e) == e.type = "ValueError" /\ e.msg \in ForbiddenMessages
IsEmptyFormulaError(e) ==
    e.type = "ValueError" /\ e.msg = "Formula must reference at least one alias"
IsUnknownAliasError(e) ==
    /\ e.type = "ValueError"
    /\ e.msg = "Formula references aliases not found in data columns"
IsMixedFrequencyError(e) == e.type = "MixedFrequencyError"

\* no target axis, tolerance, aligned series or result exists yet
NothingComputed ==
    /\ target_idx = <<>> /\ tol = Unset
    /\ result_series = EmptySeries /\ out = NoOutput

\* a node whose class or operator is outside the grammar, anywhere in the tree
RECURSIVE OutsideWhitelist(_)
OutsideWhitelist(node) ==
    \/ node.kind \notin {"BinOp", "UnaryOp", "Name", "Constant"}
    \/ node.kind = "BinOp" /\ node.tag \notin {"Add", "Sub", "Mult", "Div", "Pow"}
    \/ node.kind = "UnaryOp" /\ node.tag \notin {"UAdd", "USub"}
    \/ \E k \in DOMAIN node.kids : OutsideWhitelist(node.kids[k])

\* every variable name that occurs in the tree
RECURSIVE NamesIn(_)
NamesIn(node) ==
    IF node.kind = "Name" THEN {node.tag}
    ELSE IF node.kids = <<>> THEN {}
    ELSE UNION {NamesIn(node.kids[k]) : k \in DOMAIN node.kids}

Accepted(f) == _parse_formula_safe(f).ok

-----------------------------------------------------------------------------
(* C1: a formula whose tree holds, at any depth, a node class or operator  *)
(* outside the whitelist (the type of a literal is the matter of C18) never *)
(* gets past the parse step: the call ends in a forbidden-expression error *)
(* and nothing of the formula is aligned or evaluated.                     *)
C1_ForbiddenRejected ==
    (formula.syntax_ok /\ OutsideWhitelist(formula.body)) =>
        /\ pc \in {"start", "parse", "raised"}
        /\ NothingComputed
        /\ pc = "raised" => IsForbiddenExpressionError(error)

\* a call nested two levels down in an otherwise valid expression is refused
C1_Witness ==
    /\ pc = "raised"
    /\ formula.body = BinOp("Add",
                            BinOp("Mult", Name("Y"),
                                  Node("Call", <<Name("f"), Name("A")>>)),
                            IntLit(1))
    /\ error = [type |-> "ValueError", msg |-> "Forbidden expression element",
                detail |-> <<"Call">>]

(* C9: when an accepted formula names aliases that are not columns, the    *)
(* call ends in the unknown-alias error, whose message names exactly the   *)
(* missing aliases, all of them, sorted.                                   *)
C9_UnknownAliasesAllListed ==
    LET missing == NamesIn(formula.body) \ DOMAIN data.cols
    IN  (Accepted(formula) /\ missing # {}) =>
           /\ pc \in {"start", "parse", "check_refs", "raised"}
           /\ pc = "raised" =>
                 /\ IsUnknownAliasError(error)
                 /\ error.detail = Sorted(missing)

\* {Z, C, Y} referenced, only Y a column: the message names C and Z
C9_Witness ==
    /\ pc = "raised"
    /\ IsUnknownAliasError(error)
    /\ referenced = {"Y", "Z", "C"}
    /\ DOMAIN data.cols = {"Y"}
    /\ error.detail = <<"C", "Z">>
    /\ names[1] = "Z"

(* C10: an accepted formula with no alias in it ends in the empty-formula  *)
(* error and returns nothing, whatever the columns of the table.           *)
C10_ConstantOnlyRejected ==
    (Accepted(formula) /\ NamesIn(formula.body) = {}) =>
        /\ pc \in {"start", "parse", "check_refs", "raised"}
        /\ NothingComputed
        /\ pc = "raised" => IsEmptyFormulaError(error)

\* "1 * (1 + 1)"-like formula over a table that has columns
C10_Witness ==
    /\ pc = "raised"
    /\ IsEmptyFormulaError(error)
    /\ formula.body = BinOp("Mult", IntLit(1), BinOp("Add", IntLit(1), IntLit(1)))
    /\ DOMAIN data.cols = {"A", "B", "Y"}

-----------------------------------------------------------------------------
\* the table as compute_custom_index reads it, and what it holds
SortedInput == IF is_monotonic_increasing(data.index) THEN data ELSE sort_index(data)
Cell(n, t) == At(Column(SortedInput, n), t)
DaysOf(n) == {t \in Range(data.index) : ~IsNaN(Cell(n, t))}
Max(S) == CHOOSE m \in S : \A x \in S : x <= m
AllExist(f) == NamesIn(f.body) \subseteq DOMAIN data.cols

(* C2: when the aliases an accepted formula references (all of them        *)
(* columns) classify to more than one periodicity, the call ends in        *)
(* MixedFrequencyError at the uniform-frequency check: no target axis, no  *)
(* tolerance, no alignment, no result, under either alignment policy and   *)
(* every tolerance.                                                        *)
C2_MixedFrequencyFailsFast ==
    LET labels == {_infer_periodicity_label(SetToSortedSeq(DaysOf(n))) :
                      n \in NamesIn(formula.body)} \ {"None"}
        failsFast == /\ pc \in {"start", "parse", "check_refs", "uniform", "raised"}
                     /\ NothingComputed
                     /\ pc = "raised" => IsMixedFrequencyError(error)
    IN  \/ failsFast
        \/ ~(Accepted(formula) /\ AllExist(formula) /\ Cardinality(labels) > 1)

\* A daily (days 0, 1, 2) and B quarterly (days 0, 90), combined as of
C2_Witness ==
    /\ pc = "raised"
    /\ IsMixedFrequencyError(error)
    /\ cross_align = "asof"
    /\ DaysOf("A") = {0, 1, 2}
    /\ DaysOf("B") = {0, 90}
    /\ formula.body = BinOp("Mult", Name("A"), Name("B"))
    /\ error.detail = <<(<<"B", Int2F(90), "QUARTERLY">>), (<<"A", One, "DAILY">>)>>

(* C3: under as-of alignment every aligned value at a target day T is the  *)
(* alias's value on its latest non-missing day t <= T when T - t is within *)
(* the resolved tolerance (or there is no bound), and missing otherwise;   *)
(* so it never comes from a day after T.                                   *)
C3_AsofNoLookAhead ==
    (cross_align = "asof" /\ pc \in {"evaluate", "postprocess", "output", "done"}) =>
        \A n \in referenced :
            /\ aligned[n].index = target_idx
            /\ \A i \in DOMAIN target_idx :
                  LET T == target_idx[i]
                      past == {t \in DaysOf(n) : t <= T}
                  IN  aligned[n].values[i] =
                         IF past = {} THEN NaN
                         ELSE IF tol.kind = "days" /\ T - Max(past) > tol.days THEN NaN
                         ELSE Cell(n, Max(past))

\* A on days 0 and 3, B on day 2, tolerance 2 days: at day 2 A is its value
\* of day 0 (10), not the closer value of day 3 (13)
C3_Witness ==
    /\ pc = "evaluate"
    /\ cross_align = "asof"
    /\ tol = Days(2)
    /\ DaysOf("A") = {0, 3}
    /\ DaysOf("B") = {2}
    /\ referenced = {"A", "B"}
    /\ target_idx = <<0, 2, 3>>
    /\ aligned["A"].values = <<Int2F(10), Int2F(10), Int2F(13)>>

-----------------------------------------------------------------------------
\* every node of a tree
RECURSIVE SubNodes(_)
SubNodes(node) ==
    {node} \cup UNION {SubNodes(node.kids[k]) : k \in DOMAIN node.kids}

Evaluated == pc \in {"postprocess", "output", "done"}
ValueOf(node) == _evaluate_expr(node, aligned, names)
ZeroIfMissing(v) == IF IsNaN(v) THEN Zero ELSE v

(* C4: at every additive node of the formula and every target day, the    *)
(* value is left' + right' (left' - right'), the operand values with       *)
(* missing replaced by 0, whether one or both operands are missing.        *)
C4_AdditiveZeroFill ==
    Evaluated =>
        \A node \in SubNodes(expr_ast) :
            (node.kind = "BinOp" /\ node.tag \in {"Add", "Sub"}) =>
                \A i \in DOMAIN target_idx :
                    LET x == ZeroIfMissing(ValueOf(node.kids[1]).values[i])
                        y == ZeroIfMissing(ValueOf(node.kids[2]).values[i])
                    IN  ValueOf(node).values[i] =
                           IF node.tag = "Add" THEN FAdd(x, y) ELSE FSub(x, y)

\* the value the claim gives a *, / or ** node whose operands are both
\* present (a quotient or power that is infinite is left to C6 and C7)
Arithmetic(op, x, y) ==
    CASE op = "Mult" -> FMul(x, y)
      [] op = "Div" -> FDiv(x, y)
      [] op = "Pow" -> FPow(x, y)

(* C5: at every *, / and ** node and every target day, the value is        *)
(* missing when either operand is missing, whatever the other operand, and *)
(* is the arithmetic result of the two values when both are present.       *)
C5_MultiplicativeMissing ==
    Evaluated =>
        \A node \in SubNodes(expr_ast) :
            (node.kind = "BinOp" /\ node.tag \in {"Mult", "Div", "Pow"}) =>
                \A i \in DOMAIN target_idx :
                    LET x == ValueOf(node.kids[1]).values[i]
                        y == ValueOf(node.kids[2]).values[i]
                        v == ValueOf(node).values[i]
                    IN  IF IsNaN(x) \/ IsNaN(y) THEN IsNaN(v)
                        ELSE \/ v = Arithmetic(node.tag, x, y)
                             \/ IsInf(Arithmetic(node.tag, x, y)) /\ IsNaN(v)

(* C6: for the formula A / B, where B is exactly 0 and A is present the    *)
(* call succeeds, the output is missing there and the warnings of the      *)
(* metadata are not empty.                                                 *)
C6_DivisionByZeroWarned ==
    (/\ formula.body = BinOp("Div", Name("A"), Name("B"))
     /\ pc \in {"done", "raised"}
     /\ \E t \in DaysOf("A") : IsZero(Cell("B", t))) =>
        /\ pc = "done"
        /\ \A i \in DOMAIN out.series.index :
              IsZero(Cell("B", out.series.index[i])) => IsNaN(out.series.values[i])
        /\ out.meta.warnings # <<>>

(* C7: the returned series holds no +inf and no -inf; an infinity that the *)
(* formula yields on a target day is returned as missing, and no call      *)
(* fails once its checks have passed.                                      *)
C7_NoInfinityReturned ==
    /\ \A i \in DOMAIN out.series.values : ~IsInf(out.series.values[i])
    /\ pc = "done" =>
          /\ out.returned
          /\ \A i \in DOMAIN target_idx :
                IsInf(ValueOf(expr_ast).values[i]) => IsNaN(out.series.values[i])
    /\ pc = "raised" => NothingComputed

\* -(A ** C) with A = 0 and C = -1 is -inf, returned as missing with a warning
C7_Witness ==
    /\ pc = "done"
    /\ formula.body = UnaryOp("USub", BinOp("Pow", Name("A"), Name("C")))
    /\ Cell("A", 0) = Zero /\ Cell("C", 0) = Int2F(-1)
    /\ ValueOf(expr_ast).values = <<NInf>>
    /\ out.series.values = <<NaN>>
    /\ out.meta.warnings # <<>>

(* C8 as stated: the formula "X" returns X's non-missing days, ascending,  *)
(* each with X's input value.                                              *)
C8_RoundTripAsStated ==
    (pc = "done" /\ formula.body.kind = "Name") =>
        LET X == formula.body.tag
        IN  /\ out.series.index = SetToSortedSeq(DaysOf(X))
            /\ \A i \in DOMAIN out.series.index :
                  out.series.values[i] = Cell(X, out.series.index[i])

(* C8 amended: the formula "X" returns X's non-missing days, ascending,    *)
(* each with X's input value, except that a day on which X is +inf or -inf *)
(* is returned as missing.                                                 *)
C8_RoundTripFinite ==
    (pc = "done" /\ formula.body.kind = "Name") =>
        LET X == formula.body.tag
        IN  /\ out.series.index = SetToSortedSeq(DaysOf(X))
            /\ \A i \in DOMAIN out.series.index :
                  out.series.values[i] =
                     IF IsInf(Cell(X, out.series.index[i])) THEN NaN
                     ELSE Cell(X, out.series.index[i])

\* "A" as of with tolerance 0, A +inf on day 0, missing on day 1, 12 on day 2
C8_Witness ==
    /\ pc = "done"
    /\ formula.body = Name("A")
    /\ cross_align = "asof" /\ tol = Days(0)
    /\ DaysOf("A") = {0, 2}
    /\ Cell("A", 0) = PInf
    /\ out.series = [index |-> <<0, 2>>, values |-> <<NaN, Int2F(12)>>]

-----------------------------------------------------------------------------
\* the median gap of an alias's non-missing days
MedianGap(n) == _median_days(SetToSortedSeq(DaysOf(n)))
\* the (alias, median) pairs a MixedFrequencyError message names
NamedInError(e) ==
    IF e.msg = "does not match expected periodicity"
    THEN {<<e.detail[1], e.detail[2]>>}
    ELSE {<<e.detail[k][1], e.detail[k][2]>> : k \in DOMAIN e.detail}
Finished == pc \in {"done", "raised"}

(* C11: with an expected periodicity P, a call whose formula is accepted   *)
(* and whose aliases all exist ends in MixedFrequencyError exactly when    *)
(* some referenced alias with at least 2 non-missing days has a median gap *)
(* outside P's band; the message then names such an alias and its median.  *)
(* Aliases with fewer than 2 non-missing days never cause the failure.     *)
C11_ExpectedPeriodicityChecked ==
    LET P == expected_periodicity
        offending == {n \in NamesIn(formula.body) :
                         /\ Cardinality(DaysOf(n)) >= 2
                         /\ ~InBand(MedianGap(n), P)}
    IN  (Finished /\ P # "None" /\ Accepted(formula) /\ AllExist(formula)) =>
           /\ (pc = "raised" /\ IsMixedFrequencyError(error)) <=> offending # {}
           /\ (pc = "raised" /\ IsMixedFrequencyError(error)) =>
                 \E n \in offending : <<n, MedianGap(n)>> \in NamedInError(error)

\* expected DAILY; A has one day (exempt), B has days 0, 1, 90 (median 45):
\* the uniform check passes and the expected check names B
C11_Witness ==
    /\ pc = "raised"
    /\ expected_periodicity = "DAILY"
    /\ referenced = {"A", "B"}
    /\ DaysOf("A") = {7}
    /\ DaysOf("B") = {0, 1, 90}
    /\ error = [type |-> "MixedFrequencyError",
                msg |-> "does not match expected periodicity",
                detail |-> <<"B", (<<45, 1>>), "DAILY">>]

-----------------------------------------------------------------------------
\* the days on which at least one alias of the formula is non-missing
ReferencedDays == UNION {DaysOf(n) : n \in NamesIn(formula.body)}

(* C12: on success the index of the returned series is the target axis,   *)
(* the ascending duplicate-free union of the days on which the referenced  *)
(* aliases are non-missing; columns the formula does not reference add no  *)
(* day, and a referenced alias may be missing on days of the axis.         *)
C12_OutputSpansTargetAxis ==
    pc = "done" =>
        /\ out.series.index = target_idx
        /\ target_idx = SetToSortedSeq(ReferencedDays)
        /\ \A i, j \in DOMAIN target_idx : i < j => target_idx[i] < target_idx[j]

\* A on days 0 and 2, B on days 2 and 3, C (not referenced) on every day:
\* the axis is 0, 2, 3, without day 1, and neither A nor B covers it
C12_Witness ==
    /\ pc = "done"
    /\ formula.body = BinOp("Add", Name("A"), Name("B"))
    /\ DaysOf("A") = {0, 2} /\ DaysOf("B") = {2, 3}
    /\ 1 \in DaysOf("C")
    /\ out.series.index = <<0, 2, 3>>

-----------------------------------------------------------------------------
Aligned == pc \in {"evaluate", "postprocess", "output", "done"}

(* C13: under exact alignment the aligned value of every referenced alias  *)
(* at every target day t is the alias's own value of day t when it is      *)
(* non-missing there, and missing otherwise, whatever the tolerance.       *)
C13_ExactAlignment ==
    (cross_align = "exact" /\ Aligned) =>
        \A n \in referenced :
            /\ aligned[n].index = target_idx
            /\ \A i \in DOMAIN target_idx :
                  aligned[n].values[i] =
                     IF target_idx[i] \in DaysOf(n) THEN Cell(n, target_idx[i])
                     ELSE NaN

\* A on days 0 and 3, B on day 2, tolerance 2 days, exact: at day 2 A is
\* missing although its value of day 0 is within the tolerance
C13_Witness ==
    /\ pc = "evaluate"
    /\ cross_align = "exact"
    /\ tol = Days(2)
    /\ DaysOf("A") = {0, 3}
    /\ DaysOf("B") = {2}
    /\ referenced = {"A", "B"}
    /\ target_idx = <<0, 2, 3>>
    /\ aligned["A"].values = <<Int2F(10), NaN, Int2F(13)>>

-----------------------------------------------------------------------------
\* the automatic windows, in days, as the design lists them
DesignWindow(P) ==
    CASE P = "DAILY" -> 3
      [] P = "WEEKLY" -> 10
      [] P = "MONTHLY" -> 35
      [] P = "QUARTERLY" -> 100
      [] P = "YEARLY" -> 400
      [] P = "None" -> 35

(* C14: the resolved tolerance is the design's window for the expected    *)
(* periodicity (35 days without one) when the argument is "auto", the      *)
(* explicit duration itself whatever the expected periodicity, and no      *)
(* bound for None; as-of alignment uses that value and the metadata record *)
(* it.                                                                     *)
C14_ToleranceResolved ==
    LET resolved ==
            IF cross_align_tolerance.kind = "auto"
            THEN Days(DesignWindow(expected_periodicity))
            ELSE IF cross_align_tolerance.kind = "days"
            THEN Days(cross_align_tolerance.days)
            ELSE NoTolerance
    IN  /\ tol # Unset => tol = resolved
        /\ (Aligned /\ cross_align = "asof") =>
              \A n \in referenced :
                 aligned[n] = _asof_align_series(Column(df, n), target_idx, resolved)
        /\ pc = "done" => out.meta.cross_align_tolerance = TimedeltaStr(resolved)

\* a weekly A (days 0 and 7), expected WEEKLY, "auto", as of: 10 days
C14_Witness ==
    /\ pc = "done"
    /\ expected_periodicity = "WEEKLY"
    /\ cross_align_tolerance = AutoTolerance
    /\ cross_align = "asof"
    /\ DaysOf("A") = {0, 7}
    /\ tol = Days(10)
    /\ out.meta.cross_align_tolerance = <<10, "days 00:00:00">>

-----------------------------------------------------------------------------
\* The outcome of the call on the inputs of the state when the set of
\* referenced aliases is iterated in the given order: the error raised, or
\* the series and metadata returned.
Failure(type, msg, detail) ==
    [error |-> [type |-> type, msg |-> msg, detail |-> detail], out |-> NoOutput]

OutcomeUnder(order) ==
    LET frame == SortedInput
        parsed == _parse_formula_safe(formula)
        refs == parsed.names
        uniform == _enforce_uniform_frequency(frame, order)
        valid == IF expected_periodicity = "None"
                 THEN [ok |-> TRUE, msg |-> "", detail |-> <<>>]
                 ELSE _validate_all_series_frequency(frame, order, expected_periodicity)
        axis == _union_index([k \in DOMAIN order |-> NonMissingIndex(frame, order[k])])
        window == _resolve_tolerance(cross_align_tolerance, expected_periodicity)
        env == [n \in refs |->
                   IF cross_align = "exact" THEN reindex(Column(frame, n), axis)
                   ELSE _asof_align_series(Column(frame, n), axis, window)]
        raw == _evaluate_expr(formula.body, env, order)
        series == IF HasInf(raw) THEN ReplaceInf(raw) ELSE raw
        warned == IF HasInf(raw)
                  THEN <<"Division by zero encountered; converted inf to NaN.">>
                  ELSE <<>>
    IN  IF ~parsed.ok THEN Failure("ValueError", parsed.msg, parsed.detail)
        ELSE IF refs = {}
        THEN Failure("ValueError", "Formula must reference at least one alias", <<>>)
        ELSE IF missing_aliases(order, frame) # <<>>
        THEN Failure("ValueError",
                     "Formula references aliases not found in data columns",
                     MissingNamed(missing_aliases(order, frame)))
        ELSE IF ~uniform.ok THEN Failure("MixedFrequencyError", uniform.msg, uniform.detail)
        ELSE IF ~valid.ok THEN Failure("MixedFrequencyError", valid.msg, valid.detail)
        ELSE IF cross_align # "exact"
                /\ \E n \in refs : AsofRaises(Column(frame, n), window)
        THEN Failure("MergeError", "tolerance must be positive", <<>>)
        ELSE [error |-> NoError,
              out |-> [returned |-> TRUE,
                       series |-> series,
                       meta |->
                         [formula |-> formula,
                          aliases |-> dict_copy(aliases),
                          resolved_columns |-> [n \in refs |-> n],
                          referenced_aliases |-> Sorted(refs),
                          expected_periodicity |-> expected_periodicity,
                          frequency_check |->
                             _summarize_frequency(frame, order, expected_periodicity),
                          cross_align |-> cross_align,
                          cross_align_tolerance |-> TimedeltaStr(window),
                          warnings |-> warned,
                          index_span |-> IF series.index = <<>> THEN <<>>
                                         ELSE <<series.index[1],
                                                series.index[Len(series.index)]>>,
                          row_counts |-> [n \in refs |->
                             Cardinality({i \in DOMAIN env[n].values :
                                             ~IsNaN(env[n].values[i])})]]]]

\* the orders in which the aliases of the formula can be iterated
OrdersOfCall ==
    IF Accepted(formula) THEN IterationOrders(NamesIn(formula.body)) ELSE {<<>>}

(* C15: the outcome of a call (the error, or the series and metadata) is   *)
(* the same for every order in which the set of referenced aliases can be  *)
(* iterated, so two calls with identical inputs end identically.           *)
C15_Deterministic ==
    Finished =>
        \A order \in OrdersOfCall :
            OutcomeUnder(order) = [error |-> error, out |-> out]

\* the part of it that concerns the calls that return a result
SuccessIsOrderIndependent ==
    (pc = "done") =>
        \A order \in OrdersOfCall :
            OutcomeUnder(order) = [error |-> error, out |-> out]

\* every finished call ends as OutcomeUnder gives for its own order
OutcomeOfOwnOrder ==
    Finished => OutcomeUnder(names) = [error |-> error, out |-> out]

-----------------------------------------------------------------------------
(* C16: no step of the call changes the caller's table (its index order,  *)
(* its columns, its values) or the caller's aliases mapping, also when the *)
(* table has to be sorted and when the call fails; the alias mapping of    *)
(* the metadata holds the same items in a dict of its own.                 *)
C16_InputsNotMutated ==
    /\ [][data' = data /\ aliases' = aliases]_vars
    /\ [](pc = "done" =>
            /\ out.meta.aliases.items = aliases.items
            /\ out.meta.aliases.id # aliases.id)

\* a table given in the order 2, 0, 1 is read in the order 0, 1, 2 and is
\* still in the order 2, 0, 1 when the result is returned
C16_Witness ==
    /\ pc = "done"
    /\ data.index = <<2, 0, 1>>
    /\ df.index = <<0, 1, 2>>
    /\ out.series.index = <<0, 1>>
    /\ out.meta.aliases = [id |-> "copy", items |-> aliases.items]

-----------------------------------------------------------------------------
\* the formula is accepted and has an alias, every alias is a column, the
\* aliases share one frequency and match the expected one if there is one
ChecksPassed ==
    /\ Accepted(formula)
    /\ NamesIn(formula.body) # {}
    /\ AllExist(formula)
    /\ Cardinality({_infer_periodicity_label(SetToSortedSeq(DaysOf(n))) :
                       n \in NamesIn(formula.body)} \ {"None"}) <= 1
    /\ expected_periodicity # "None" =>
          \A n \in NamesIn(formula.body) :
             \/ Cardinality(DaysOf(n)) < 2
             \/ InBand(MedianGap(n), expected_periodicity)

(* C17: the target axis, the tolerance, the aligned series and the result  *)
(* only ever exist in calls that have passed the alias check and both      *)
(* frequency checks; a call that fails returns no series and no metadata;  *)
(* a call that returns has passed every check.                             *)
C17_ChecksFirstAllOrNothing ==
    /\ (\/ pc \in {"tolerance", "align", "evaluate", "postprocess", "output", "done"}
         \/ ~NothingComputed
         \/ aligned # <<>>) => ChecksPassed
    /\ pc = "raised" => (error # NoError /\ out = NoOutput)
    /\ out.returned => (pc = "done" /\ error = NoError /\ ChecksPassed)

\* a weekly A (days 0 and 7) with expected DAILY, as of: the call stops at
\* the expected-periodicity check with nothing built
C17_Witness ==
    /\ pc = "raised"
    /\ cross_align = "asof"
    /\ expected_periodicity = "DAILY"
    /\ formula.body = Name("A")
    /\ DaysOf("A") = {0, 7}
    /\ error.msg = "does not match expected periodicity"
    /\ NothingComputed /\ aligned = <<>>

-----------------------------------------------------------------------------
\* the types of the literals in a tree
LiteralTypes(node) == {n.tag : n \in {k \in SubNodes(node) : k.kind = "Constant"}}
PastParsing == pc \notin {"start", "parse"}

(* C18: a formula with a literal that is neither an int nor a float (a     *)
(* string, bytes, a boolean, None, Ellipsis, a complex number) is rejected *)
(* by the validation of the parse step and is never evaluated.             *)
C18_OnlyIntAndFloatLiterals ==
    (/\ formula.syntax_ok
     /\ ~(LiteralTypes(formula.body) \subseteq {"int", "float"})
     /\ PastParsing) =>
        /\ pc = "raised"
        /\ IsForbiddenExpressionError(error)
        /\ NothingComputed

\* the same for every literal type of the claim but the boolean
NonNumericLiteralsRejected ==
    (/\ formula.syntax_ok
     /\ ~(LiteralTypes(formula.body) \subseteq {"int", "float", "bool"})
     /\ PastParsing) =>
        /\ pc = "raised"
        /\ IsForbiddenExpressionError(error)
        /\ NothingComputed

-----------------------------------------------------------------------------
\* the last call was save_chart and it returned a library
SaveChartSucceeded == call.op = "save_chart" /\ result.raised = ""
\* how often a list holds x
Occurrences(list, x) == Cardinality({i \in DOMAIN list : list[i] = x})
\* the name as the uniqueness rule compares it: trimmed, case ignored
Normalized(name) == str_lower(str_strip(name))

C20_NameConflict ==
    [][(/\ call'.op = "save_chart"
        /\ ops' = ops + 1
        /\ {"chart_id", "display_name"} \subseteq DOMAIN call'.args.snapshot_payload
        /\ _resolve_folder_by_path(load_library(storage, now),
                                   call'.args.folder_path).ok) =>
          LET before == load_library(storage, now)
              given == call'.args.snapshot_payload
              target == _resolve_folder_by_path(before, call'.args.folder_path).folder
              clash == \E c \in DOMAIN before.charts :
                          /\ c # given.chart_id
                          /\ Occurrences(before.folders[target].charts, c) > 0
                          /\ Normalized(before.charts[c].display_name)
                                = Normalized(given.display_name)
          IN  (result'.raised = "NameConflictError") <=> clash]_vars

\* chart-2 saved as " aB " into the root, which lists chart-1 "Ab"
C20_Witness ==
    /\ call.op = "save_chart"
    /\ result.raised = "NameConflictError"
    /\ call.args.folder_path = <<ROOT_FOLDER_ID>>
    /\ call.args.snapshot_payload.chart_id = "chart-2"
    /\ call.args.snapshot_payload.display_name = <<" ", "a", "B", " ">>
    /\ load_library(storage, now).folders[ROOT_FOLDER_ID].charts = <<"chart-1">>
    /\ load_library(storage, now).charts["chart-1"].display_name = <<"A", "b">>

\* chart-2 saved as " aB " into folder X while the root lists chart-1 "Ab",
\* and chart-1 saved again as "Ab" into the root: neither is a conflict
NoConflictAcrossFolders ==
    /\ SaveChartSucceeded
    /\ call.args.snapshot_payload.chart_id = "chart-2"
    /\ call.args.snapshot_payload.display_name = <<" ", "a", "B", " ">>
    /\ Len(call.args.folder_path) = 2
    /\ result.library.folders[ROOT_FOLDER_ID].charts = <<"chart-1">>
    /\ result.library.charts["chart-1"].display_name = <<"A", "b">>

-----------------------------------------------------------------------------
(* C24: an infinity that arises inside the formula reaches the final       *)
(* result: for A / B + C, A / B - C, C + A / B and C - A / B, on a day      *)
(* where B is exactly 0 and A is present and not 0 (the quotient is         *)
(* infinite), the value returned is missing and a warning is recorded,      *)
(* whatever C holds there.                                                  *)
C24_InfinityReachesFinalResult ==
    (/\ pc = "done"
     /\ \E op \in {"Add", "Sub"} :
           formula.body \in
              {BinOp(op, BinOp("Div", Name("A"), Name("B")), Name("C")),
               BinOp(op, Name("C"), BinOp("Div", Name("A"), Name("B")))}) =>
        \A i \in DOMAIN out.series.index :
            LET t == out.series.index[i]
            IN  (/\ IsZero(Cell("B", t))
                 /\ ~IsNaN(Cell("A", t))
                 /\ ~IsZero(Cell("A", t))) =>
                    /\ IsNaN(out.series.values[i])
                    /\ out.meta.warnings # <<>>

-----------------------------------------------------------------------------
\* v is the arithmetic negation of the present value x
NegationOf(v, x) ==
    IF IsInf(x) THEN IsInf(v) /\ Negative(v) # Negative(x)
    ELSE ~IsNaN(v) /\ ~IsInf(v) /\ IsZero(FAdd(v, x))

(* C25: at every unary node of the formula and every target day, -X is     *)
(* missing exactly where X is missing and is the negation of X's value     *)
(* elsewhere, and +X is X; the negation itself fills nothing with 0.        *)
C25_NegationKeepsMissing ==
    Evaluated =>
        \A node \in SubNodes(expr_ast) :
            node.kind = "UnaryOp" =>
                \A i \in DOMAIN target_idx :
                    LET x == ValueOf(node.kids[1]).values[i]
                        v == ValueOf(node).values[i]
                    IN  IF node.tag = "UAdd" THEN v = x
                        ELSE /\ IsNaN(v) <=> IsNaN(x)
                             /\ ~IsNaN(x) => NegationOf(v, x)

\* -A * C with A missing and C = 1 is missing; -A alone with A = 1 is -1
C25_Witness ==
    /\ pc = "done"
    /\ formula.body = BinOp("Mult", UnaryOp("USub", Name("A")), Name("C"))
    /\ IsNaN(Cell("A", 0))
    /\ Cell("C", 0) = One
    /\ IsNaN(ValueOf(UnaryOp("USub", Name("A"))).values[1])
    /\ IsNaN(out.series.values[1])

\* the enclosing + still fills: -A + C with A missing and C = 1 is 1
NegatedOperandZeroFilledByAdd ==
    /\ pc = "done"
    /\ formula.body = BinOp("Add", UnaryOp("USub", Name("A")), Name("C"))
    /\ IsNaN(Cell("A", 0))
    /\ Cell("C", 0) = One
    /\ out.series.values = <<One>>

-----------------------------------------------------------------------------
(* C28: wherever a numeric literal occurs in the formula it evaluates to a *)
(* series on the target axis, the axis of every aligned alias, that holds  *)
(* the literal's value on every day; so at a node c + X or X + c the value *)
(* is c on a day where X is missing, and at c * X or X * c it is missing.   *)
C28_LiteralBroadcast ==
    Evaluated =>
        /\ \A n \in DOMAIN aligned : aligned[n].index = target_idx
        /\ \A node \in SubNodes(expr_ast) :
              /\ node.kind = "Constant" =>
                    /\ ValueOf(node).index = target_idx
                    /\ \A i \in DOMAIN target_idx :
                          ValueOf(node).values[i] = node.val
              /\ (node.kind = "BinOp" /\ node.tag \in {"Add", "Mult"}) =>
                    \A c, x \in DOMAIN node.kids :
                        (c # x /\ node.kids[c].kind = "Constant") =>
                            \A i \in DOMAIN target_idx :
                                IsNaN(ValueOf(node.kids[x]).values[i]) =>
                                    IF node.tag = "Add"
                                    THEN ValueOf(node).values[i] = node.kids[c].val
                                    ELSE IsNaN(ValueOf(node).values[i])

\* (1 + A) + Y on the days 0, 1, 2 with A missing on day 2: 1 + A is 1 there
C28_Witness ==
    /\ pc = "done"
    /\ formula.body = BinOp("Add", BinOp("Add", IntLit(1), Name("A")), Name("Y"))
    /\ target_idx = <<0, 1, 2>>
    /\ IsNaN(aligned["A"].values[3])
    /\ ValueOf(IntLit(1)) = [index |-> <<0, 1, 2>>, values |-> <<One, One, One>>]
    /\ ValueOf(BinOp("Add", IntLit(1), Name("A"))).values[3] = One

\* 1 * A, in 1 * A + Y, is missing on the day where A is
LiteralTimesMissing ==
    /\ pc = "done"
    /\ formula.body = BinOp("Add", BinOp("Mult", IntLit(1), Name("A")), Name("Y"))
    /\ target_idx = <<0, 1, 2>>
    /\ IsNaN(aligned["A"].values[3])
    /\ IsNaN(ValueOf(BinOp("Mult", IntLit(1), Name("A"))).values[3])
    /\ out.series.values[3] = One

-----------------------------------------------------------------------------
\* the label of the design for an alias: by the median gap d of its
\* non-missing days, with both ends of every band included
ClassifiedAs(n) ==
    LET d == MedianGap(n)
        Within(lo, hi) == FLe(lo, d) /\ FLe(d, hi)
    IN  IF Cardinality(DaysOf(n)) < 2 THEN "unclassified"
        ELSE IF Within((<<1, 2>>), (<<7, 2>>)) THEN "DAILY"
        ELSE IF Within(Int2F(4), Int2F(10)) THEN "WEEKLY"
        ELSE IF Within(Int2F(25), (<<71, 2>>)) THEN "MONTHLY"
        ELSE IF Within(Int2F(80), Int2F(100)) THEN "QUARTERLY"
        ELSE IF Within(Int2F(320), Int2F(400)) THEN "YEARLY"
        ELSE "unclassified"
IsUniformFrequencyFailure ==
    /\ pc = "raised"
    /\ IsMixedFrequencyError(error)
    /\ error.msg = "Mixed native frequencies detected among components"

(* C26: a call whose formula is accepted and whose aliases all exist fails *)
(* the uniform-frequency check exactly when the labels of its referenced   *)
(* aliases, unclassified ones left aside, are more than one; the labels    *)
(* follow the median gap with the bands DAILY [0.5, 3.5], WEEKLY [4, 10],   *)
(* MONTHLY [25, 35.5], QUARTERLY [80, 100], YEARLY [320, 400], ends         *)
(* included.  An unclassified alias never makes the check fail.            *)
C26_UniformFrequencyBands ==
    (Finished /\ Accepted(formula) /\ AllExist(formula)
       /\ NamesIn(formula.body) # {}) =>
        LET labels == {ClassifiedAs(n) : n \in NamesIn(formula.body)}
                         \ {"unclassified"}
        IN  IsUniformFrequencyFailure <=> Cardinality(labels) > 1

\* A on the days 0, 3, 7 (median 3.5, DAILY) and B on 3, 7 (median 4,
\* WEEKLY): the check fails
C26_Witness ==
    /\ IsUniformFrequencyFailure
    /\ DaysOf("A") = {0, 3, 7} /\ MedianGap("A") = <<7, 2>>
    /\ DaysOf("B") = {3, 7} /\ MedianGap("B") = Int2F(4)
    /\ ClassifiedAs("A") = "DAILY" /\ ClassifiedAs("B") = "WEEKLY"

\* A DAILY, B on the days 11, 61 (median 50, in no band), and A DAILY, B on
\* one day: the calls succeed
UnclassifiedDoesNotBlock ==
    /\ pc = "done"
    /\ DaysOf("A") = {0, 3, 7}
    /\ DaysOf("B") = {11, 61} /\ MedianGap("B") = Int2F(50)
    /\ ClassifiedAs("B") = "unclassified"

-----------------------------------------------------------------------------
\* the first check, in the order of the design, that the call's inputs fail
FirstFailingCheck ==
    LET P == expected_periodicity
        body == formula.body
    IN  IF ~formula.syntax_ok THEN "syntax"
        ELSE IF \/ OutsideWhitelist(body)
                \/ ~(LiteralTypes(body) \subseteq {"int", "float"})
        THEN "whitelist"
        ELSE IF NamesIn(body) = {} THEN "constant-only"
        ELSE IF ~AllExist(formula) THEN "alias existence"
        ELSE IF Cardinality({ClassifiedAs(n) : n \in NamesIn(body)}
                               \ {"unclassified"}) > 1
        THEN "uniform frequency"
        ELSE IF /\ P # "None"
                /\ \E n \in NamesIn(body) :
                      Cardinality(DaysOf(n)) >= 2 /\ ~InBand(MedianGap(n), P)
        THEN "expected periodicity"
        ELSE "none"

\* the check the error of a finished call reports
ReportedCheck ==
    IF pc = "done" THEN "none"
    ELSE IF error.type = "ValueError" /\ error.msg = "Invalid formula syntax"
    THEN "syntax"
    ELSE IF IsForbiddenExpressionError(error) THEN "whitelist"
    ELSE IF IsEmptyFormulaError(error) THEN "constant-only"
    ELSE IF IsUnknownAliasError(error) THEN "alias existence"
    ELSE IF IsUniformFrequencyFailure THEN "uniform frequency"
    ELSE IF /\ IsMixedFrequencyError(error)
            /\ error.msg = "does not match expected periodicity"
    THEN "expected periodicity"
    ELSE "another error"

(* C27: a finished call reports the first check that fails in the order    *)
(* syntax, whitelist, constant-only, alias existence, uniform frequency,   *)
(* expected periodicity, and succeeds when none fails; once a check has    *)
(* failed nothing later has run: no axis, tolerance, alignment or result.  *)
C27_FirstFailingCheckReported ==
    /\ Finished => ReportedCheck = FirstFailingCheck
    /\ pc = "raised" => NothingComputed /\ aligned = <<>>

\* A + B + Z with A DAILY and B WEEKLY: the unknown alias Z is reported
C27_Witness ==
    /\ pc = "raised"
    /\ formula.body = BinOp("Add", BinOp("Add", Name("A"), Name("B")), Name("Z"))
    /\ ClassifiedAs("A") = "DAILY" /\ ClassifiedAs("B") = "WEEKLY"
    /\ IsUnknownAliasError(error)
    /\ error.detail = <<"Z">>

\* (1)(2), a call and no alias: the forbidden construct is reported; and
\* A DAILY, B WEEKLY, expected QUARTERLY: the uniform check is reported
ConstantOnlyCallReportsForbidden ==
    /\ pc = "raised"
    /\ formula.body = Node("Call", <<IntLit(1), IntLit(2)>>)
    /\ NamesIn(formula.body) = {}
    /\ IsForbiddenExpressionError(error)
UniformBeforeExpected ==
    /\ pc = "raised"
    /\ expected_periodicity = "QUARTERLY"
    /\ DaysOf("A") = {0, 1, 2} /\ DaysOf("B") = {2, 7}
    /\ IsUniformFrequencyFailure

-----------------------------------------------------------------------------
\* the step is a call of `op` that returned a library
Succeeds(op) == call'.op = op /\ ops' = ops + 1 /\ result'.raised = ""
\* the folders of a library, or of a payload, list the chart once in
\* `folder` and nowhere else
ListedOnlyIn(folders, folder, chart_id) ==
    \A f \in DOMAIN folders :
        Occurrences(folders[f].charts, chart_id) = IF f = folder THEN 1 ELSE 0

-----------------------------------------------------------------------------
\* the folders `after` are the folders `before` with chart_id taken out of
\* the chart lists and nothing else changed
SameFoldersWithout(after, before, chart_id) ==
    /\ DOMAIN after = DOMAIN before
    /\ \A f \in DOMAIN before :
          after[f] = [before[f] EXCEPT
                        !.charts = SelectSeq(@, LAMBDA c : c # chart_id)]
\* the charts `after` are the charts `before` other than chart_id
SameChartsWithout(after, before, chart_id) ==
    /\ DOMAIN after = DOMAIN before \ {chart_id}
    /\ \A c \in DOMAIN after : after[c] = before[c]

DeleteUnknownChartNotFound ==
    /\ call.op = "delete_chart"
    /\ call.args.chart_id = "chart-9"
    /\ result.raised = "NotFoundError"

-----------------------------------------------------------------------------
\* every chart is listed by exactly one folder, every id a folder lists is a
\* chart, no folder lists an id twice, the root folder exists
Membership(folders, charts) ==
    /\ \A c \in DOMAIN charts :
          Cardinality({f \in DOMAIN folders : Occurrences(folders[f].charts, c) > 0}) = 1
    /\ \A f \in DOMAIN folders :
          \A i \in DOMAIN folders[f].charts :
             /\ folders[f].charts[i] \in DOMAIN charts
             /\ Occurrences(folders[f].charts, folders[f].charts[i]) = 1
    /\ ROOT_FOLDER_ID \in DOMAIN folders

-----------------------------------------------------------------------------
\* the errors of the validations
ValidationErrors ==
    {"InvalidPayloadError", "NameConflictError", "NotFoundError",
     "FolderNotEmptyError", "ChartLibraryError"}

(* C30: a call of a chart-library operation that raises (a snapshot        *)
(* without chart_id or display_name, a name conflict, an unknown chart or  *)
(* folder or an invalid path, a folder that is not empty, the root folder  *)
(* in delete_folder, a write that failed) leaves the storage holding the   *)
(* payload it held before the call; the storage changes only in a call     *)
(* that returns.                                                           *)
C30_FailedCallLeavesStorage ==
    [][ops' = ops + 1 =>
          /\ result'.raised # "" => storage' = storage /\ read(storage') = read(storage)
          /\ storage' # storage => result'.raised = ""
          /\ result'.raised \in ValidationErrors \cup {"", "ChartLibraryStorageError"}]_vars

\* chart-2 is saved into folder X, and delete_folder of X then raises
\* FolderNotEmptyError: the storage still has X with chart-2
C30_Witness ==
    LET x == _generate_folder_id(<<"X">>, "0a")
    IN  /\ ops = 2
        /\ call = [op |-> "delete_folder", args |-> [folder_id |-> x]]
        /\ result.raised = "FolderNotEmptyError"
        /\ x \in DOMAIN read(storage).folders
        /\ read(storage).folders[x].charts = <<"chart-2">>
        /\ read(storage).folders[ROOT_FOLDER_ID].children = <<x>>

\* every validation error is raised by some call
InvalidPayloadRaised == call.op = "save_chart" /\ result.raised = "InvalidPayloadError"
MoveConflictRaised == call.op = "move_chart" /\ result.raised = "NameConflictError"
UpdateConflictRaised == call.op = "update_chart" /\ result.raised = "NameConflictError"
UnknownFolderRaised == call.op = "rename_folder" /\ result.raised = "NotFoundError"
RootDeletionRaised == call.op = "delete_folder" /\ result.raised = "ChartLibraryError"
WriteFailureRaised == result.raised = "ChartLibraryStorageError"

-----------------------------------------------------------------------------
\* the file of the storage holds all of the payload of the call
HoldsNewPayload == storage.holds = json_dumps(call.args.payload)
\* every attempt worked on a temporary file of its own and on nothing else
AttemptsThroughTemporaryFiles ==
    /\ writer.attempts <= writer.max_write_attempts
    /\ Len(writer.temps) <= writer.attempts
    /\ \A i \in DOMAIN writer.temps :
          writer.temps[i] = "renamed" => writer.pc = "returned" /\ i = Len(writer.temps)

(* C23: JsonFileChartLibraryStorage.write makes at most max_write_attempts *)
(* attempts, each through a temporary file that is renamed over the target *)
(* when it is complete; it returns only when the target holds all of the   *)
(* new payload; it raises ChartLibraryStorageError once every attempt has  *)
(* failed; and no step leaves in the target anything but what it held or   *)
(* all of the new payload.                                                 *)
C23_AtomicBoundedWrite ==
    /\ [](/\ AttemptsThroughTemporaryFiles
          /\ writer.pc = "returned" => HoldsNewPayload
          /\ result.raised = "ChartLibraryStorageError" =>
                writer.attempts = writer.max_write_attempts)
    /\ [][storage' = storage \/ HoldsNewPayload']_vars

\* the same for a storage made with at least one attempt
AtomicBoundedWriteWithAnAttempt ==
    /\ [](writer.max_write_attempts >= 1 =>
            /\ AttemptsThroughTemporaryFiles
            /\ writer.pc = "returned" => HoldsNewPayload
            /\ result.raised = "ChartLibraryStorageError" =>
                  /\ writer.attempts = writer.max_write_attempts
                  /\ writer.pc = "raised")
    /\ [][storage' = storage \/ HoldsNewPayload']_vars

\* max_write_attempts = 0: write returns and the file that was missing is
\* still missing
ReturnedWithoutWriting ==
    /\ writer.pc = "returned"
    /\ writer.max_write_attempts = 0
    /\ writer.attempts = 0
    /\ storage.holds = NoFile
    /\ result = Returned(NoLibrary)

\* two attempts failed and the third replaced the file
ThirdAttemptSucceeded ==
    /\ writer.pc = "returned"
    /\ writer.attempts = 3
    /\ writer.temps = <<"partial", "removed", "renamed">>
    /\ HoldsNewPayload

\* what write leaves is what the one-step `write` of the library operations
\* gives: the file replaced, or the error and the file as it was
WriteIsOneStep ==
    (writer.max_write_attempts >= 1 /\ writer.pc \in {"returned", "raised"}
       /\ result.raised # "OSError") =>
        \E succeeds \in BOOLEAN :
            LET one == write(JsonFileChartLibraryStorage(storage.holds),
                             call.args.payload, succeeds)
            IN  /\ result.raised = one.raised
                /\ result.raised = "" => storage = one.storage
====
